---- MODULE Spec2Model ----
(***************************************************************************)
(* The resilient outbound call gateway of monetizing-ai-services.          *)
(*                                                                         *)
(* Two independent implementations live in the repository:                 *)
(*   core/llm_client.py       threads; RateLimiter, CircuitBreaker and     *)
(*                            BudgetTracker are module-level objects, each *)
(*                            with its own threading.Lock, used by         *)
(*                            call_llm;                                    *)
(*   core/vertex_ai_client.py asyncio; VertexAIClient keeps a token        *)
(*                            bucket, a circuit flag and a cost ledger as  *)
(*                            fields, used by call_model.                  *)
(*                                                                         *)
(* Units.  Wall-clock time of llm_client is counted in whole seconds.      *)
(* A token bucket holds TokenScale units per token, so that one second     *)
(* refills calls_per_minute units and the refill formula                   *)
(* elapsed * (calls_per_minute / 60.0) is exact.  Money is counted in      *)
(* units of 2.5e-8 USD: the price of one gemini-pro token (0.00025 USD per *)
(* 1K tokens) is 10 units, and one unit is also 0.025 USD per 1M tokens of *)
(* the Vertex price table.                                                 *)
(***************************************************************************)
EXTENDS Integers, Sequences, FiniteSets, TLC

(***************************************************************************)
(* Bounds of the model.                                                    *)
(***************************************************************************)
NThreads == 2
MaxCalls == 2
MaxTime == 6
MaxLLMTime == 1
SeqCalls == 3
SeqTime == 6
MaxPromptLen == 2
MaxVTime == 3
MaxDay == 1
MaxRLCalls == 4
MaxLeft == 3
VCoolDown == 2
SmallBudget == 20
VTokenScale == 2
Horizon == 62
RunStart == 60
MaxBTCalls == 3
\* calls of _rate_limit_acquire in a run: two more than the bucket holds
MaxAcquires == 102
\* store and clear operations on the memory bank in a run
MaxBankOps == 4
\* sessions created in a run, and records appended to one session
MaxSessions == 3
MaxHistory == 1
\* calls of append_entry in a run
MaxAppends == 3
BTDays == 2

(***************************************************************************)
(* Program constants.                                                      *)
(***************************************************************************)
TokenScale == 60
DaySeconds == 86400
NoneTime == -1
VertexThreshold == 5
VertexBucket == 100
UnitsPerUSD == 40000000

Threads == 1..NThreads

Min(a, b) == IF a <= b THEN a ELSE b

Max(a, b) == IF a >= b THEN a ELSE b

RECURSIVE Pow2(_)
Pow2(n) == IF n <= 0 THEN 1 ELSE 2 * Pow2(n - 1)

(***************************************************************************)
(* Prompts.  A prompt is a sequence of whitespace-separated words;         *)
(* str.lower() maps each word to its lower-case form and `kw in s` is a    *)
(* substring test, which for keywords without blanks is a test on the      *)
(* single words.                                                           *)
(***************************************************************************)
Words == {"Bundle", "price", "pricing", "COST", "taxes", "compliance",
          "recommend", "hello"}

Lower(w) ==
    CASE w = "Bundle" -> "bundle"
      [] w = "COST" -> "cost"
      [] OTHER -> w

\* kw is a substring of the (lower-case) word w
SubstringOf(kw, w) ==
    \/ kw = w
    \/ kw = "tax" /\ w = "taxes"

\* `kw in prompt.lower()`
Contains(prompt, kw) ==
    \E i \in 1..Len(prompt) : SubstringOf(kw, Lower(prompt[i]))

\* the canned texts with len(text.split())
TextBundle == "Suggested bundle: CRM+Support with expected uplift 8%"
TextPricing == "Recommend Hybrid: $99 base + $0.10/workflow + $0.005/1k tokens"
TextCost == "Cost analysis complete. Median cost per customer: $47.50"
TextCompliance == "Compliance check passed. VAT rates applied per region."
TextRecommend == "Recommendation: Proceed with tiered pricing strategy"
TextDefault == "Analysis complete. Proceeding with standard configuration."

SplitLen(text) ==
    CASE text = TextBundle -> 7
      [] text = TextPricing -> 9
      [] text = TextCost -> 8
      [] text = TextCompliance -> 8
      [] text = TextRecommend -> 6
      [] text = TextDefault -> 6

\* a selection that looks for "cost" before "price"
SelectTextCostFirst(prompt) ==
    IF Contains(prompt, "bundle") THEN TextBundle
    ELSE IF Contains(prompt, "cost") THEN TextCost
    ELSE IF Contains(prompt, "price") \/ Contains(prompt, "pricing") THEN TextPricing
    ELSE IF Contains(prompt, "compliance") \/ Contains(prompt, "tax") THEN TextCompliance
    ELSE IF Contains(prompt, "recommend") THEN TextRecommend
    ELSE TextDefault

\* vertex_ai_client.py lines 356-367: the rule chain of _fallback_response
SelectText(prompt) ==
    IF Contains(prompt, "bundle") THEN TextBundle
    ELSE IF Contains(prompt, "price") \/ Contains(prompt, "pricing") THEN TextPricing
    ELSE IF Contains(prompt, "cost") THEN TextCost
    ELSE IF Contains(prompt, "compliance") \/ Contains(prompt, "tax") THEN TextCompliance
    ELSE IF Contains(prompt, "recommend") THEN TextRecommend
    ELSE TextDefault

\* llm_client.py lines 284-295: the rule chain of _deterministic_fallback
SelectTextDeterministic(prompt) ==
    IF Contains(prompt, "bundle") THEN TextBundle
    ELSE IF Contains(prompt, "price") \/ Contains(prompt, "pricing") THEN TextPricing
    ELSE IF Contains(prompt, "cost") THEN TextCost
    ELSE IF Contains(prompt, "compliance") \/ Contains(prompt, "tax") THEN TextCompliance
    ELSE IF Contains(prompt, "recommend") THEN TextRecommend
    ELSE TextDefault

\* llm_client._deterministic_fallback
DeterministicFallback(prompt) ==
    LET text == SelectTextDeterministic(prompt) IN
    [text |-> text, tokens |-> SplitLen(text), model |-> "deterministic-fallback",
     finish_reason |-> "complete"]

\* a fallback generator that charges for the tokens it reports
FallbackResponseCharging(prompt, model) ==
    LET text == SelectText(prompt) IN
    [raised |-> FALSE, text |-> text, tokens_input |-> Len(prompt),
     tokens_output |-> SplitLen(text), model |-> model,
     cost_usd |-> Len(prompt), finish_reason |-> "FALLBACK", source |-> "fallback"]

\* VertexAIClient._fallback_response; raised records an exception leaving it
FallbackResponse(prompt, model) ==
    LET text == SelectText(prompt) IN
    [raised |-> FALSE, text |-> text, tokens_input |-> Len(prompt),
     tokens_output |-> SplitLen(text), model |-> model,
     cost_usd |-> 0, finish_reason |-> "FALLBACK", source |-> "fallback"]

(***************************************************************************)
(* llm_client.RateLimiter.  tokens is held in units of 1/TokenScale token. *)
(***************************************************************************)
NewRateLimiter(cpm, t) ==
    [calls_per_minute |-> cpm, tokens |-> cpm * TokenScale, max_tokens |-> cpm,
     last_refill |-> t]

\* a refill that forgets the cap
RL_RefillUncapped(rl, t) ==
    [rl EXCEPT !.tokens = rl.tokens + (t - rl.last_refill) * rl.calls_per_minute,
               !.last_refill = t]

RL_Refill(rl, t) ==
    [rl EXCEPT !.tokens = Min(rl.max_tokens * TokenScale,
                              rl.tokens + (t - rl.last_refill) * rl.calls_per_minute),
               !.last_refill = t]

\* line 40: if self.tokens >= 1
RL_HasToken(rl) == rl.tokens >= TokenScale

\* line 41: self.tokens -= 1
RL_Take(rl) == [rl EXCEPT !.tokens = @ - TokenScale]

\* acquire() as one step: the body of `with self.lock`
RL_Acquire(rl, t) ==
    LET r == RL_Refill(rl, t) IN
    IF RL_HasToken(r)
    THEN [granted |-> TRUE, rl |-> RL_Take(r)]
    ELSE [granted |-> FALSE, rl |-> r]

(***************************************************************************)
(* llm_client.CircuitBreaker.  call() is three lock-protected blocks       *)
(* around the unprotected operation: the entry check, the success update   *)
(* and the failure update.                                                 *)
(***************************************************************************)
NewCircuitBreaker(threshold, timeout) ==
    [failure_threshold |-> threshold, timeout |-> timeout, failure_count |-> 0,
     last_failure_time |-> NoneTime, state |-> "CLOSED"]

\* an entry check that never probes: OPEN always rejects
CB_EnterNoProbe(cb, t) ==
    IF cb.state = "OPEN" THEN [raise |-> TRUE, cb |-> cb]
    ELSE [raise |-> FALSE, cb |-> cb]

\* the entry check: raise = TRUE is Exception("Circuit breaker is OPEN")
CB_Enter(cb, t) ==
    IF cb.state = "OPEN"
    THEN IF t - cb.last_failure_time > cb.timeout
         THEN [raise |-> FALSE, cb |-> [cb EXCEPT !.state = "HALF_OPEN"]]
         ELSE [raise |-> TRUE, cb |-> cb]
    ELSE [raise |-> FALSE, cb |-> cb]

\* a success update that forgets to reset the count
CB_SuccessNoReset(cb) == [cb EXCEPT !.state = "CLOSED"]

CB_Success(cb) == [cb EXCEPT !.failure_count = 0, !.state = "CLOSED"]

\* a failure update that keeps the time of an earlier failure
CB_FailureStaleTime(cb, t) ==
    LET c == cb.failure_count + 1 IN
    [cb EXCEPT !.failure_count = c,
               !.last_failure_time = IF @ = NoneTime THEN t ELSE @,
               !.state = IF c >= cb.failure_threshold THEN "OPEN" ELSE @]

\* a failure update that opens one failure early
CB_FailureEager(cb, t) ==
    LET c == cb.failure_count + 1 IN
    [cb EXCEPT !.failure_count = c, !.last_failure_time = t,
               !.state = IF c >= cb.failure_threshold - 1 THEN "OPEN" ELSE @]

\* lines 82-86: the failure update
CB_Failure(cb, t) ==
    LET c == cb.failure_count + 1 IN
    [cb EXCEPT !.failure_count = c, !.last_failure_time = t,
               !.state = IF c >= cb.failure_threshold THEN "OPEN" ELSE @]

(***************************************************************************)
(* llm_client.BudgetTracker.                                               *)
(***************************************************************************)
NewBudgetTracker(budget, t) ==
    [daily_budget |-> budget, daily_spent |-> 0, reset_time |-> t + DaySeconds]

\* model_costs.get(model, 0.01), per token, in money units
PricePerToken(model) ==
    CASE model = "gemini-pro" -> 10
      [] model = "gpt-4o" -> 1200
      [] model = "claude-3" -> 600
      [] OTHER -> 400

BT_ResetIfNeeded(bt, t) ==
    IF t > bt.reset_time
    THEN [bt EXCEPT !.daily_spent = 0, !.reset_time = t + DaySeconds]
    ELSE bt

\* a budget check that refuses a call reaching the ceiling exactly
BT_CheckBudgetStrict(bt, estimated_cost, t) ==
    LET b == BT_ResetIfNeeded(bt, t) IN
    [ok |-> b.daily_spent + estimated_cost < b.daily_budget, bt |-> b]

BT_CheckBudget(bt, estimated_cost, t) ==
    LET b == BT_ResetIfNeeded(bt, t) IN
    [ok |-> b.daily_spent + estimated_cost <= b.daily_budget, bt |-> b]

\* a recording that stops at the ceiling
BT_RecordUsageCapped(bt, model, tokens, t) ==
    LET b == BT_ResetIfNeeded(bt, t) IN
    [b EXCEPT !.daily_spent = Min(Max(b.daily_budget, @),
                                  @ + tokens * PricePerToken(model))]

\* a recording that adds the cost twice
BT_RecordUsageTwice(bt, model, tokens, t) ==
    LET b == BT_ResetIfNeeded(bt, t) IN
    [b EXCEPT !.daily_spent = @ + 2 * tokens * PricePerToken(model)]

\* lines 119-124 (the alert of lines 127-129 only prints)
BT_RecordUsage(bt, model, tokens, t) ==
    LET b == BT_ResetIfNeeded(bt, t) IN
    [b EXCEPT !.daily_spent = @ + tokens * PricePerToken(model)]

\* call_llm's estimate: (max_tokens + words * 1.3) / 1000 * 0.00025 USD
EstimatedCost(prompt, max_tokens) == 10 * max_tokens + 13 * Len(prompt)

(***************************************************************************)
(* VertexAIClient.  The bucket holds VTokenScale units per token and vnow  *)
(* counts the time one unit takes to refill (60 / tokens_per_minute /      *)
(* VTokenScale seconds), so elapsed * (tokens_per_minute / 60.0) tokens is *)
(* `elapsed` units.  Costs are in money units: USD per 1M tokens / 0.025.  *)
(***************************************************************************)
PricedModels == {"gemini-2.0-flash", "gemini-1.5-pro", "gemini-1.5-flash"}

\* self.model_costs
ModelCosts(model) ==
    CASE model = "gemini-2.0-flash" -> [input |-> 3, output |-> 12]
      [] model = "gemini-1.5-pro" -> [input |-> 50, output |-> 200]
      [] model = "gemini-1.5-flash" -> [input |-> 3, output |-> 12]

NewVertexClient(budget, initialized, force) ==
    [vertex_ai_initialized |-> initialized /\ ~force, force_fallback |-> force,
     daily_budget_usd |-> budget,
     daily_costs |-> <<>>, total_costs |-> 0, cost_lock |-> 0,
     rate_limit_tokens |-> VertexBucket * VTokenScale, max_tokens |-> VertexBucket,
     last_refill |-> 0, rate_limit_lock |-> [locked_by |-> 0, waiters |-> <<>>],
     failure_count |-> 0, last_failure_time |-> NoneTime, circuit_open |-> FALSE]

RECURSIVE SumOver(_, _)
SumOver(f, S) ==
    IF S = {} THEN 0
    ELSE LET x == CHOOSE y \in S : TRUE IN f[x] + SumOver(f, S \ {x})

\* sum(self.daily_costs.get(today, {}).values())
TodaySpend(v, today) ==
    IF today \in DOMAIN v.daily_costs
    THEN SumOver(v.daily_costs[today], DOMAIN v.daily_costs[today])
    ELSE 0

\* the bucket update of _track_cost written as an assignment
BucketAddOverwrite(bucket, model, cost) ==
    [m \in DOMAIN bucket \cup {model} |->
        IF m = model THEN cost ELSE bucket[m]]

\* lines 298-301: self.daily_costs[today][model] += total_cost
BucketAdd(bucket, model, cost) ==
    [m \in DOMAIN bucket \cup {model} |->
        IF m = model
        THEN (IF m \in DOMAIN bucket THEN bucket[m] ELSE 0) + cost
        ELSE bucket[m]]

\* a _track_cost that leaves the lifetime total out
TrackCostForgetsTotal(v, model, input_tokens, output_tokens, today) ==
    IF model \notin PricedModels
    THEN [cost |-> 0, v |-> v]
    ELSE LET costs == ModelCosts(model)
             total_cost == input_tokens * costs.input + output_tokens * costs.output
             dc == v.daily_costs
             bucket == IF today \in DOMAIN dc THEN dc[today] ELSE <<>>
         IN [cost |-> total_cost,
             v |-> [v EXCEPT !.daily_costs =
                               [d \in DOMAIN dc \cup {today} |->
                                  IF d = today THEN BucketAdd(bucket, model, total_cost)
                                  ELSE dc[d]]]]

\* a _track_cost that keeps the buckets of the current day only
TrackCostDropsDays(v, model, input_tokens, output_tokens, today) ==
    IF model \notin PricedModels
    THEN [cost |-> 0, v |-> v]
    ELSE LET costs == ModelCosts(model)
             total_cost == input_tokens * costs.input + output_tokens * costs.output
             dc == v.daily_costs
             bucket == IF today \in DOMAIN dc THEN dc[today] ELSE <<>>
         IN [cost |-> total_cost,
             v |-> [v EXCEPT !.daily_costs =
                               [d \in {today} |-> BucketAdd(bucket, model, total_cost)],
                             !.total_costs = @ + total_cost]]

\* a _track_cost that opens the day's bucket before it looks up the price
TrackCostOpensBucket(v, model, input_tokens, output_tokens, today) ==
    LET known == model \in PricedModels
        total_cost == IF known
                      THEN input_tokens * ModelCosts(model).input
                             + output_tokens * ModelCosts(model).output
                      ELSE 0
        dc == v.daily_costs
        bucket == IF today \in DOMAIN dc THEN dc[today] ELSE <<>>
    IN [cost |-> total_cost,
        v |-> [v EXCEPT !.daily_costs =
                          [d \in DOMAIN dc \cup {today} |->
                             IF d = today THEN BucketAdd(bucket, model, total_cost)
                             ELSE dc[d]],
                        !.total_costs = @ + total_cost]]

\* _track_cost, the body under cost_lock (it has no suspension point)
TrackCost(v, model, input_tokens, output_tokens, today) ==
    IF model \notin PricedModels
    THEN [cost |-> 0, v |-> v]
    ELSE LET costs == ModelCosts(model)
             total_cost == input_tokens * costs.input + output_tokens * costs.output
             dc == v.daily_costs
             bucket == IF today \in DOMAIN dc THEN dc[today] ELSE <<>>
         IN [cost |-> total_cost,
             v |-> [v EXCEPT !.daily_costs =
                               [d \in DOMAIN dc \cup {today} |->
                                  IF d = today THEN BucketAdd(bucket, model, total_cost)
                                  ELSE dc[d]],
                             !.total_costs = @ + total_cost]]

\* lines 319-324: the refill of _rate_limit_acquire
V_Refill(v, t) ==
    [v EXCEPT !.rate_limit_tokens = Min(v.max_tokens * VTokenScale,
                                        @ + (t - v.last_refill)),
              !.last_refill = t]

\* lines 326-332: take a token, or the time to sleep for one (wait > 0)
V_Acquire(v, t) ==
    LET r == V_Refill(v, t) IN
    IF r.rate_limit_tokens >= VTokenScale
    THEN [wait |-> 0, v |-> [r EXCEPT !.rate_limit_tokens = @ - VTokenScale]]
    ELSE [wait |-> VTokenScale - r.rate_limit_tokens, v |-> r]

\* line 144: the client answers from the fallback without trying the provider
UseFallback(v) == ~v.vertex_ai_initialized \/ v.circuit_open \/ v.force_fallback

\* a failure accounting that counts but never opens the circuit
V_FailureNeverOpens(v, t) ==
    [v EXCEPT !.failure_count = @ + 1, !.last_failure_time = t]

\* lines 181-187: the failure accounting of call_model
V_Failure(v, t) ==
    LET c == v.failure_count + 1 IN
    [v EXCEPT !.failure_count = c, !.last_failure_time = t,
              !.circuit_open = IF c >= VertexThreshold THEN TRUE ELSE @]

\* lines 163-165
V_Success(v) == [v EXCEPT !.failure_count = 0, !.circuit_open = FALSE]

NoResult ==
    [raised |-> FALSE, text |-> "", tokens_input |-> 0, tokens_output |-> 0,
     model |-> "", cost_usd |-> 0, finish_reason |-> "", source |-> "none"]

\* lines 253-259, 173-175: the provider's response with cost and source
LiveResponse(prompt, model, output_tokens, cost) ==
    [raised |-> FALSE, text |-> "provider", tokens_input |-> Len(prompt),
     tokens_output |-> output_tokens, model |-> model, cost_usd |-> cost,
     finish_reason |-> "STOP", source |-> "vertex_ai"]

\* no dict: the task has not called get_cost_summary / get_status
NoSummary ==
    [taken |-> FALSE, total_cost_usd |-> 0, daily_cost_usd |-> 0,
     daily_budget_usd |-> 0, daily_remaining_usd |-> 0, daily_breakdown |-> NoneTime]

NoStatus ==
    [taken |-> FALSE, vertex_ai_initialized |-> FALSE, circuit_open |-> FALSE,
     failure_count |-> 0, mode |-> ""]

\* lines 386-398: the dict get_cost_summary builds.  daily_breakdown is
\* self.daily_costs.get(today, {}): the day's bucket itself when there is
\* one (held here as its day key), a new empty dict (NoneTime) otherwise.
CostSummary(v, today) ==
    [taken |-> TRUE, total_cost_usd |-> v.total_costs,
     daily_cost_usd |-> TodaySpend(v, today),
     daily_budget_usd |-> v.daily_budget_usd,
     daily_remaining_usd |-> Max(0, v.daily_budget_usd - TodaySpend(v, today)),
     daily_breakdown |-> IF today \in DOMAIN v.daily_costs THEN today ELSE NoneTime]

\* lines 407-415: the dict get_status builds
Status(v) ==
    [taken |-> TRUE, vertex_ai_initialized |-> v.vertex_ai_initialized,
     circuit_open |-> v.circuit_open, failure_count |-> v.failure_count,
     mode |-> IF v.vertex_ai_initialized THEN "vertex_ai" ELSE "fallback"]

\* what summary["daily_breakdown"] holds when it is read with the client in
\* state v: the bucket it refers to, as it is now
ReportedBreakdown(s, v) ==
    IF s.daily_breakdown = NoneTime THEN <<>> ELSE v.daily_costs[s.daily_breakdown]

IdleTask ==
    [pc |-> "idle", prompt |-> <<>>, model |-> "", max_retries |-> 0, attempt |-> 0,
     wake |-> 0, result |-> NoResult,
     trace |-> [over_budget |-> FALSE, while_open |-> FALSE],
     summary |-> NoSummary, status |-> NoStatus]

(***************************************************************************)
(* State.                                                                  *)
(*   gateway          which object the run drives: "cb" a CircuitBreaker   *)
(*                    called directly, "rl" a RateLimiter called directly, *)
(*                    "llm" call_llm, "vtx" VertexAIClient.call_model,     *)
(*                    "fb" the fallback generator alone, "acq"             *)
(*                    RateLimiter.acquire and "lk" call_llm with every     *)
(*                    lock operation a step of its own, "bt" a             *)
(*                    BudgetTracker called directly, "sum" the cost        *)
(*                    ledger and the introspection of a VertexAIClient,    *)
(*                    "adm" VertexAIClient._rate_limit_acquire called      *)
(*                    directly, "mb" a MemoryBank, "ss" an                 *)
(*                    InMemorySessionService, "al" the audit ledger        *)
(*   now              time.time() of llm_client, in seconds                *)
(*   rate_limiter, circuit_breaker, budget_tracker                         *)
(*                    the module-level objects of llm_client               *)
(*   thr              per thread: where it is in call_llm (or in           *)
(*                    CircuitBreaker.call) and its locals                  *)
(*   cb_hist          history of the breaker: operations dispatched in the *)
(*                    current HALF_OPEN window, consecutive failed         *)
(*                    operations, whether it ever was OPEN / HALF_OPEN     *)
(*   cb_last          history of direct calls of the breaker: the last     *)
(*                    completed call (what it saw on entry, whether the    *)
(*                    operation was invoked, how it ended) and the time    *)
(*                    since the last failure at the latest rejection       *)
(*   last_start       history: when the latest call_llm (or the latest     *)
(*                    BudgetTracker method called directly) started and    *)
(*                    what the breaker and the budget were at that moment  *)
(*   ncalls           number of calls started                              *)
(*   vtx              the fields of the VertexAIClient                     *)
(*   task             per asyncio task: where it is in call_model and its  *)
(*                    locals                                               *)
(*   vnow             time.time() of the Vertex client, in units of the    *)
(*                    time one bucket unit takes to refill                 *)
(*   day              datetime.now()'s calendar date, as a day number      *)
(*   v_recorded       history: the sum of the costs _track_cost returned   *)
(*   locks            the holder of each threading.Lock of llm_client      *)
(*                    (0: free), in the runs that follow the locks         *)
(*   granted          history: the number of acquisitions of the driven    *)
(*                    token bucket that proceeded                          *)
(*   memory           MemoryBank.memory: {session_id: {key: [values]}}     *)
(*   stored           history: per (session_id, key) the values stored     *)
(*                    since the pair was last cleared                      *)
(*   sessions         InMemorySessionService.sessions                      *)
(*   fs               the file system under audit_ledger: whether output/  *)
(*                    exists, and the lines of audit_ledger.jsonl          *)
(*   appended         history: the entries append_entry wrote              *)
(*   last_call        history: the latest call of a core service, its      *)
(*                    arguments, what it found and what it returned        *)
(***************************************************************************)
VARIABLES gateway, now, rate_limiter, circuit_breaker, budget_tracker, thr,
          cb_hist, cb_last, ncalls, last_start, vtx, task, vnow, day, v_recorded,
          locks, granted, memory, stored, sessions, fs, appended, last_call

llmVars == <<now, rate_limiter, circuit_breaker, budget_tracker, thr, cb_hist,
             cb_last, last_start, locks>>

vtxVars == <<vtx, task, vnow, day, v_recorded>>

\* the bucket admission count and the core services (memory bank, session
\* service, audit ledger) with their histories
svcVars == <<granted, memory, stored, sessions, fs, appended, last_call>>

vars == <<gateway, now, rate_limiter, circuit_breaker, budget_tracker, thr,
          cb_hist, cb_last, ncalls, last_start, vtx, task, vnow, day, v_recorded,
          locks, svcVars>>

\* an empty dict
EmptyDict == <<>>

\* output/audit_ledger.jsonl does not exist
NoFile == [exists |-> FALSE, lines |-> <<>>]

NoCall == [op |-> ""]

\* the admission count and the core services when a run does not drive them
InitServicesIdle ==
    /\ granted = 0
    /\ memory = EmptyDict
    /\ stored = EmptyDict
    /\ sessions = EmptyDict
    /\ fs = [dir |-> FALSE, file |-> NoFile]
    /\ appended = <<>>
    /\ last_call = NoCall

\* the Vertex client when a run does not drive it
InitVertexIdle ==
    /\ vtx = NewVertexClient(0, FALSE, FALSE)
    /\ task = [k \in Threads |-> IdleTask]
    /\ vnow = 0
    /\ day = 0
    /\ v_recorded = 0

NoEntry == [state |-> "CLOSED", gap |-> NoneTime]

\* what a call has done so far (history, reset when the call returns)
NoTrace ==
    [admitted |-> FALSE, invoked |-> 0, denied |-> 0, rejected |-> 0,
     waits |-> <<>>, gaps_ok |-> TRUE, last_fail |-> NoneTime,
     billed |-> 0, over_budget |-> FALSE]

NoStart == [time |-> 0, state |-> "CLOSED", count |-> 0, spent |-> 0]

\* RateLimiter.lock, CircuitBreaker.lock, BudgetTracker.lock: all free
NoLocks == [rl |-> 0, cb |-> 0, bt |-> 0]

\* the dict call_llm has not built yet
NoLLMResult == [text |-> "", tokens |-> 0, model |-> "", finish_reason |-> ""]

IdleThread ==
    [pc |-> "idle", prompt |-> <<>>, max_tokens |-> 0, max_retries |-> 0,
     use_gemini |-> FALSE, env_use_gemini |-> FALSE,
     model |-> "", estimated_cost |-> 0,
     live |-> FALSE, attempt |-> 0, wake |-> 0, tokens |-> 0, entry |-> NoEntry,
     result |-> NoLLMResult, trace |-> NoTrace]

\* lines 180, 216: return _deterministic_fallback(prompt)
ToFallback(th) ==
    [th EXCEPT !.pc = "fallback", !.result = DeterministicFallback(th.prompt)]

\* lines 261-266: the dict _call_gemini returns
GeminiResult(tokens) ==
    [text |-> "simulated", tokens |-> tokens, model |-> "gemini-pro-simulated",
     finish_reason |-> "stop"]

\* a live switch that looks at the environment only
LiveEnabledByEnv(use_gemini, env_use_gemini) == env_use_gemini

\* line 173: os.getenv("USE_GEMINI") == "1" and use_gemini
LiveEnabled(use_gemini, env_use_gemini) == env_use_gemini /\ use_gemini

NewHist ==
    [window_trials |-> 0, consec |-> 0, opened |-> FALSE, half_opened |-> FALSE]

NoLast ==
    [rejected_gap |-> NoneTime, entry |-> NoEntry, invoked |-> FALSE,
     outcome |-> "none"]

\* what a caller saw when it entered CircuitBreaker.call at time t: the state
\* and, when OPEN, the time since the last failure
EntryOf(cb, t) ==
    [state |-> cb.state,
     gap |-> IF cb.state = "OPEN" THEN t - cb.last_failure_time ELSE NoneTime]

\* history after the entry check e = CB_Enter(cb, t) of a caller
HistEnter(h, e) ==
    IF e.raise THEN h
    ELSE [h EXCEPT !.window_trials = IF e.cb.state = "HALF_OPEN" THEN @ + 1 ELSE @,
                   !.half_opened = @ \/ e.cb.state = "HALF_OPEN"]

\* history after the operation of a caller returned (ok) or raised
HistReturn(h, after, ok) ==
    [h EXCEPT !.window_trials = IF after.state = "HALF_OPEN" THEN @ ELSE 0,
              !.consec = IF ok THEN 0 ELSE @ + 1,
              !.opened = @ \/ after.state = "OPEN"]

TypeOK ==
    /\ gateway \in {"cb", "rl", "llm", "vtx", "fb", "acq", "lk", "bt", "sum",
                    "adm", "mb", "ss", "al"}
    /\ granted \in Nat
    /\ now \in Nat
    /\ circuit_breaker.state \in {"CLOSED", "OPEN", "HALF_OPEN"}
    /\ ncalls \in Nat

(***************************************************************************)
(* The clock.                                                              *)
(***************************************************************************)
\* time.time() when the observed run begins
Epoch == IF gateway \in {"llm", "lk"} THEN RunStart ELSE 0

\* concurrent runs: the clock advances a second at a time
Tick ==
    /\ gateway \in {"cb", "rl", "llm", "acq", "lk", "ss", "al"}
    /\ now < Epoch + (IF gateway \in {"llm", "lk"} THEN MaxLLMTime
                      ELSE IF gateway = "al" THEN MaxAppends - 1 ELSE MaxTime)
    /\ now' = now + 1
    /\ UNCHANGED <<gateway, svcVars, rate_limiter, circuit_breaker, budget_tracker, thr,
                   cb_hist, cb_last, ncalls, last_start, vtxVars, locks>>

\* sequential runs: the clock advances d seconds
TickLong(d) ==
    /\ gateway \in {"cb", "llm"}
    /\ now + d <= Epoch + (IF gateway = "llm" THEN SeqTime ELSE Horizon)
    /\ now' = now + d
    /\ UNCHANGED <<gateway, svcVars, rate_limiter, circuit_breaker, budget_tracker, thr,
                   cb_hist, cb_last, ncalls, last_start, vtxVars, locks>>

(***************************************************************************)
(* CircuitBreaker.call(func) called directly by thread t.                  *)
(***************************************************************************)
\* lines 68-73: the entry check under the lock; the caller is then inside
\* func (pc "func") or has left with "Circuit breaker is OPEN"
CBCall(t) ==
    /\ gateway = "cb"
    /\ thr[t].pc = "idle"
    /\ LET e == CB_Enter(circuit_breaker, now) IN
       /\ circuit_breaker' = e.cb
       /\ cb_hist' = HistEnter(cb_hist, e)
       /\ IF e.raise
          THEN /\ cb_last' = [rejected_gap |-> now - circuit_breaker.last_failure_time,
                              entry |-> EntryOf(circuit_breaker, now),
                              invoked |-> FALSE, outcome |-> "rejected"]
               /\ UNCHANGED thr
          ELSE /\ thr' = [thr EXCEPT ![t].pc = "func",
                                     ![t].entry = EntryOf(circuit_breaker, now)]
               /\ UNCHANGED cb_last
    /\ UNCHANGED <<gateway, svcVars, now, rate_limiter, budget_tracker, ncalls, last_start, vtxVars, locks>>

\* lines 75-87: func returned (ok) or raised; the update under the lock
CBFuncReturn(t, ok) ==
    /\ gateway = "cb"
    /\ thr[t].pc = "func"
    /\ LET after == IF ok THEN CB_Success(circuit_breaker)
                    ELSE CB_Failure(circuit_breaker, now) IN
       /\ circuit_breaker' = after
       /\ cb_hist' = HistReturn(cb_hist, after, ok)
    /\ cb_last' = [cb_last EXCEPT !.entry = thr[t].entry, !.invoked = TRUE,
                                  !.outcome = IF ok THEN "ok" ELSE "fail"]
    /\ thr' = [thr EXCEPT ![t] = IdleThread]
    /\ UNCHANGED <<gateway, svcVars, now, rate_limiter, budget_tracker, ncalls, last_start, vtxVars, locks>>

\* the module globals of llm_client when a run does not drive them
InitLLMIdle ==
    /\ now = 0
    /\ rate_limiter = NewRateLimiter(60, 0)
    /\ budget_tracker = NewBudgetTracker(UnitsPerUSD, 0)
    /\ thr = [t \in Threads |-> IdleThread]
    /\ cb_hist = NewHist
    /\ cb_last = NoLast
    /\ ncalls = 0
    /\ last_start = NoStart
    /\ locks = NoLocks

InitCommon ==
    /\ InitLLMIdle
    /\ InitVertexIdle

\* concurrent callers of one breaker
InitCB ==
    /\ gateway = "cb"
    /\ InitServicesIdle
    /\ circuit_breaker = NewCircuitBreaker(2, 2)
    /\ InitCommon

NextCB ==
    \/ Tick
    \/ \E t \in Threads : CBCall(t)
    \/ \E t \in Threads, ok \in BOOLEAN : CBFuncReturn(t, ok)

SpecCB == InitCB /\ [][NextCB]_vars

\* one caller, the breaker of the recovery scenario (cool-down 60 s)
InitCBSeq ==
    /\ gateway = "cb"
    /\ InitServicesIdle
    /\ circuit_breaker \in {NewCircuitBreaker(th, 60) : th \in {2, 3}}
    /\ InitCommon

NextCBSeq ==
    \/ \E d \in {1, 59} : TickLong(d)
    \/ CBCall(1)
    \/ \E ok \in BOOLEAN : CBFuncReturn(1, ok)

SpecCBSeq == InitCBSeq /\ [][NextCBSeq]_vars

(***************************************************************************)
(* call_llm by thread t.  pc:                                              *)
(*   idle      not in a call                                               *)
(*   loop      at the head of `for attempt in range(max_retries)`          *)
(*   cb_enter  token granted, about to enter circuit_breaker.call          *)
(*   func      inside _call_gemini (no lock held)                          *)
(*   record    _call_gemini returned, about to record the usage            *)
(*   rl_sleep  time.sleep(1.0) after a denied token                        *)
(*   backoff   time.sleep(2 ** attempt + jitter) after a failed attempt    *)
(*   fallback, live, raised                                                *)
(*             leaving call_llm with the deterministic fallback, with the  *)
(*             provider's result, or with an exception                     *)
(***************************************************************************)

\* lines 205-213 when the last attempt failed and the handler re-raises
AfterExceptionReraise(th, t) ==
    IF th.attempt < th.max_retries - 1
    THEN [th EXCEPT !.pc = "backoff", !.wake = t + Pow2(th.attempt),
                    !.trace.waits = Append(@, Pow2(th.attempt))]
    ELSE [th EXCEPT !.pc = "raised"]

\* lines 205-213 when the last failed attempt is not counted
AfterExceptionNoCount(th, t) ==
    IF th.attempt < th.max_retries - 1
    THEN [th EXCEPT !.pc = "backoff", !.wake = t + Pow2(th.attempt),
                    !.trace.waits = Append(@, Pow2(th.attempt))]
    ELSE [th EXCEPT !.pc = "loop"]

\* lines 205-213 with a constant wait instead of the exponential one
AfterExceptionFlat(th, t) ==
    IF th.attempt < th.max_retries - 1
    THEN [th EXCEPT !.pc = "backoff", !.wake = t + 1,
                    !.trace.waits = Append(@, 1)]
    ELSE [th EXCEPT !.pc = "loop", !.attempt = @ + 1]

\* lines 205-213: the except clause of the retry loop.  The jitter only
\* lengthens the sleep, which lasts at least 2 ** attempt seconds.
AfterException(th, t) ==
    IF th.attempt < th.max_retries - 1
    THEN [th EXCEPT !.pc = "backoff", !.wake = t + Pow2(th.attempt),
                    !.trace.waits = Append(@, Pow2(th.attempt))]
    ELSE [th EXCEPT !.pc = "loop", !.attempt = @ + 1]

\* a denied token handled like a failed attempt
AfterDenialAsException(th, t) == AfterException(th, t)

\* lines 186-190: no token; time.sleep(1.0), then `continue`
AfterDenial(th, t) ==
    [th EXCEPT !.pc = "rl_sleep", !.wake = t + 1, !.trace.denied = @ + 1]

\* lines 172-183: the live switch and the budget check
LLMStart(t, limit, prompt, max_tokens, max_retries, use_gemini, env_use_gemini) ==
    /\ gateway = "llm"
    /\ thr[t].pc = "idle"
    /\ ncalls < limit
    /\ ncalls' = ncalls + 1
    /\ last_start' = [time |-> now, state |-> circuit_breaker.state,
                      count |-> circuit_breaker.failure_count,
                      spent |-> budget_tracker.daily_spent]
    /\ LET th == [IdleThread EXCEPT !.prompt = prompt, !.max_tokens = max_tokens,
                                    !.max_retries = max_retries,
                                    !.use_gemini = use_gemini,
                                    !.env_use_gemini = env_use_gemini,
                                    !.live = LiveEnabled(use_gemini, env_use_gemini)]
           c == BT_CheckBudget(budget_tracker, EstimatedCost(prompt, max_tokens), now)
       IN
       IF th.live
       THEN /\ budget_tracker' = c.bt
            /\ thr' = [thr EXCEPT ![t] =
                         IF c.ok THEN [th EXCEPT !.pc = "loop", !.trace.admitted = TRUE]
                         ELSE ToFallback(th)]
       ELSE /\ thr' = [thr EXCEPT ![t] = ToFallback(th)]
            /\ UNCHANGED budget_tracker
    /\ UNCHANGED <<gateway, svcVars, now, rate_limiter, circuit_breaker, cb_hist, cb_last,
                   vtxVars, locks>>

\* lines 183-190: the loop head and rate_limiter.acquire()
LLMAcquire(t) ==
    /\ gateway = "llm"
    /\ thr[t].pc = "loop"
    /\ IF thr[t].attempt >= thr[t].max_retries
       THEN /\ thr' = [thr EXCEPT ![t] = ToFallback(@)]
            /\ UNCHANGED rate_limiter
       ELSE LET r == RL_Acquire(rate_limiter, now) IN
            /\ rate_limiter' = r.rl
            /\ thr' = IF r.granted
                      THEN [thr EXCEPT ![t].pc = "cb_enter"]
                      ELSE [thr EXCEPT ![t] = AfterDenial(@, now)]
    /\ UNCHANGED <<gateway, svcVars, now, circuit_breaker, budget_tracker, cb_hist, cb_last,
                   ncalls, last_start, vtxVars, locks>>

\* lines 193 and 68-73: the entry check of circuit_breaker.call
LLMEnterBreaker(t) ==
    /\ gateway = "llm"
    /\ thr[t].pc = "cb_enter"
    /\ LET e == CB_Enter(circuit_breaker, now)
           th == thr[t] IN
       /\ circuit_breaker' = e.cb
       /\ cb_hist' = HistEnter(cb_hist, e)
       /\ thr' = [thr EXCEPT ![t] =
                    IF e.raise
                    THEN AfterException([th EXCEPT !.trace.rejected = @ + 1], now)
                    ELSE [th EXCEPT !.pc = "func",
                                    !.trace.invoked = @ + 1,
                                    !.trace.last_fail = NoneTime,
                                    !.trace.over_budget = @ \/
                                        budget_tracker.daily_spent
                                          + EstimatedCost(th.prompt, th.max_tokens)
                                        > budget_tracker.daily_budget,
                                    !.trace.gaps_ok = @ /\
                                        (th.trace.last_fail # NoneTime =>
                                           now - th.trace.last_fail
                                             >= Pow2(th.attempt - 1))]]
    /\ UNCHANGED <<gateway, svcVars, now, rate_limiter, budget_tracker, cb_last, ncalls, last_start, vtxVars, locks>>

\* lines 75-87 and 205-213: _call_gemini returned `tokens` tokens (ok) or
\* raised; the breaker's update under its lock, then the way out of the try
LLMProviderReturn(t, ok, tokens) ==
    /\ gateway = "llm"
    /\ thr[t].pc = "func"
    /\ LET after == IF ok THEN CB_Success(circuit_breaker)
                    ELSE CB_Failure(circuit_breaker, now)
           th == thr[t] IN
       /\ circuit_breaker' = after
       /\ cb_hist' = HistReturn(cb_hist, after, ok)
       /\ thr' = [thr EXCEPT ![t] =
                    IF ok THEN [th EXCEPT !.pc = "record", !.tokens = tokens]
                    ELSE AfterException([th EXCEPT !.trace.last_fail = now], now)]
    /\ UNCHANGED <<gateway, svcVars, now, rate_limiter, budget_tracker, cb_last, ncalls, last_start, vtxVars, locks>>

\* lines 201-203: budget_tracker.record_usage("gemini-pro", tokens); return
LLMRecord(t) ==
    /\ gateway = "llm"
    /\ thr[t].pc = "record"
    /\ budget_tracker' = BT_RecordUsage(budget_tracker, "gemini-pro", thr[t].tokens, now)
    /\ thr' = [thr EXCEPT ![t].pc = "live",
                          ![t].result = GeminiResult(thr[t].tokens),
                          ![t].trace.billed = @ + thr[t].tokens * PricePerToken("gemini-pro")]
    /\ UNCHANGED <<gateway, svcVars, now, rate_limiter, circuit_breaker, cb_hist, cb_last,
                   ncalls, last_start, vtxVars, locks>>

\* lines 189-190 and 211: a sleep ends (not before its time); next iteration
LLMWake(t) ==
    /\ gateway = "llm"
    /\ thr[t].pc \in {"rl_sleep", "backoff"}
    /\ now >= thr[t].wake
    /\ thr' = [thr EXCEPT ![t].pc = "loop", ![t].attempt = @ + 1, ![t].wake = 0]
    /\ UNCHANGED <<gateway, svcVars, now, rate_limiter, circuit_breaker, budget_tracker,
                   cb_hist, cb_last, ncalls, last_start, vtxVars, locks>>

\* lines 203, 216: call_llm returns (or an exception leaves it)
LLMReturn(t) ==
    /\ gateway = "llm"
    /\ thr[t].pc \in {"fallback", "live", "raised"}
    /\ thr' = [thr EXCEPT ![t] = IdleThread]
    /\ UNCHANGED <<gateway, svcVars, now, rate_limiter, circuit_breaker, budget_tracker,
                   cb_hist, cb_last, ncalls, last_start, vtxVars, locks>>

\* States the module-level objects can be in when the observed calls begin,
\* RunStart seconds after the module was loaded.
DrainedRateLimiter == [NewRateLimiter(60, 0) EXCEPT !.tokens = 0, !.last_refill = RunStart]

NearlyOpenBreaker ==
    [NewCircuitBreaker(5, 60) EXCEPT !.failure_count = 4, !.last_failure_time = 0]

OpenBreaker ==
    [NewCircuitBreaker(5, 60) EXCEPT !.failure_count = 5, !.last_failure_time = 0,
                                     !.state = "OPEN"]

HistOf(cb) ==
    [NewHist EXCEPT !.consec = cb.failure_count, !.opened = cb.state = "OPEN"]

InitLLM ==
    /\ gateway = "llm"
    /\ InitServicesIdle
    /\ now = RunStart
    /\ rate_limiter \in {NewRateLimiter(60, 0), DrainedRateLimiter}
    /\ circuit_breaker \in {NewCircuitBreaker(5, 60), NearlyOpenBreaker, OpenBreaker}
    /\ cb_hist = HistOf(circuit_breaker)
    /\ budget_tracker \in {NewBudgetTracker(UnitsPerUSD, 0),
                           [NewBudgetTracker(UnitsPerUSD, 0)
                              EXCEPT !.daily_spent = UnitsPerUSD - 2600]}
    /\ thr = [t \in Threads |-> IdleThread]
    /\ cb_last = NoLast
    /\ ncalls = 0
    /\ last_start = NoStart
    /\ locks = NoLocks
    /\ InitVertexIdle

LLMSteps(t) ==
    \/ LLMAcquire(t)
    \/ LLMEnterBreaker(t)
    \/ \E ok \in BOOLEAN : LLMProviderReturn(t, ok, 10)
    \/ LLMRecord(t)
    \/ LLMWake(t)
    \/ LLMReturn(t)

NextLLM ==
    \/ Tick
    \/ \E t \in Threads :
          \/ \E use \in BOOLEAN : LLMStart(t, MaxCalls, <<"price">>, 256, 2, use, TRUE)
          \/ LLMSteps(t)

SpecLLM == InitLLM /\ [][NextLLM]_vars

\* one caller at a time; the calls of the budget and retry scenarios
LLMStepsSeq(t) ==
    \/ LLMAcquire(t)
    \/ LLMEnterBreaker(t)
    \/ \E ok \in BOOLEAN, tokens \in {10, 2000000} : LLMProviderReturn(t, ok, tokens)
    \/ LLMRecord(t)
    \/ LLMWake(t)
    \/ LLMReturn(t)

NextLLMSeq ==
    \/ TickLong(1)
    \/ \E max_tokens \in {256, 2000000}, max_retries \in {0, 1, 3},
          use \in BOOLEAN, env \in BOOLEAN :
          LLMStart(1, SeqCalls, <<>>, max_tokens, max_retries, use, env)
    \/ LLMStepsSeq(1)

SpecLLMSeq == InitLLM /\ [][NextLLMSeq]_vars

(***************************************************************************)
(* RateLimiter.acquire() called directly by thread t.                      *)
(***************************************************************************)
RLAcquire(t) ==
    /\ gateway = "rl"
    /\ ncalls < MaxRLCalls
    /\ LET r == RL_Acquire(rate_limiter, now) IN
       /\ rate_limiter' = r.rl
       /\ thr' = [thr EXCEPT ![t].trace.admitted = r.granted,
                             ![t].trace.denied = IF r.granted THEN 0 ELSE 1]
       /\ granted' = IF r.granted THEN granted + 1 ELSE granted
    /\ ncalls' = ncalls + 1
    /\ UNCHANGED <<gateway, now, circuit_breaker, budget_tracker, cb_hist, cb_last,
                   last_start, vtxVars, locks, memory, stored, sessions, fs,
                   appended, last_call>>

NextRL == Tick \/ \E t \in Threads : RLAcquire(t)

(***************************************************************************)
(* RateLimiter.acquire() with `with self.lock` and each statement of its   *)
(* body a step of its own.                                                 *)
(*   rl_lock    at line 38, about to take self.lock                        *)
(*   rl_refill  holding the lock, before _refill()                         *)
(*   rl_test    holding the lock, at `if self.tokens >= 1`                 *)
(*   rl_take    holding the lock, at `self.tokens -= 1`                    *)
(*   rl_ret     acquire() has returned (trace.admitted: its value)         *)
(***************************************************************************)
\* a lock that lets every caller in
LockFreeAlways(l, name) == TRUE

\* threading.Lock: __enter__ returns only when nobody holds the lock
LockFree(l, name) == l[name] = 0

\* `with <lock>` entered by thread t, which moves from pc `from` to pc `to`
LockTake(t, name, from, to) ==
    /\ thr[t].pc = from
    /\ LockFree(locks, name)
    /\ locks' = [locks EXCEPT ![name] = t]
    /\ thr' = [thr EXCEPT ![t].pc = to]

\* a `with` block that never gives its lock back
LockReleaseNever(l, name) == l

\* the end of a `with <lock>` block
LockRelease(l, name) == [l EXCEPT ![name] = 0]

\* a thread calls rate_limiter.acquire()
AcqCall(t) ==
    /\ gateway = "acq"
    /\ thr[t].pc = "idle"
    /\ thr' = [thr EXCEPT ![t].pc = "rl_lock"]
    /\ ncalls' = ncalls + 1
    /\ UNCHANGED <<gateway, svcVars, now, rate_limiter, circuit_breaker, budget_tracker,
                   cb_hist, cb_last, last_start, vtxVars, locks>>

\* line 38
AcqLock(t) ==
    /\ gateway \in {"acq", "lk"}
    /\ LockTake(t, "rl", "rl_lock", "rl_refill")
    /\ UNCHANGED <<gateway, svcVars, now, rate_limiter, circuit_breaker, budget_tracker,
                   cb_hist, cb_last, ncalls, last_start, vtxVars>>

\* line 39
AcqRefill(t) ==
    /\ gateway \in {"acq", "lk"}
    /\ thr[t].pc = "rl_refill"
    /\ rate_limiter' = RL_Refill(rate_limiter, now)
    /\ thr' = [thr EXCEPT ![t].pc = "rl_test"]
    /\ UNCHANGED <<gateway, svcVars, now, circuit_breaker, budget_tracker, cb_hist, cb_last,
                   ncalls, last_start, vtxVars, locks>>

\* lines 40, 43: the test; on failure return False, leaving the block
AcqTest(t) ==
    /\ gateway \in {"acq", "lk"}
    /\ thr[t].pc = "rl_test"
    /\ IF RL_HasToken(rate_limiter)
       THEN /\ thr' = [thr EXCEPT ![t].pc = "rl_take"]
            /\ UNCHANGED locks
       ELSE /\ thr' = [thr EXCEPT ![t].pc = "rl_ret", ![t].trace.admitted = FALSE,
                                  ![t].trace.denied = @ + 1]
            /\ locks' = LockRelease(locks, "rl")
    /\ UNCHANGED <<gateway, svcVars, now, rate_limiter, circuit_breaker, budget_tracker,
                   cb_hist, cb_last, ncalls, last_start, vtxVars>>

\* lines 41-42: the decrement; return True, leaving the block
AcqTake(t) ==
    /\ gateway \in {"acq", "lk"}
    /\ thr[t].pc = "rl_take"
    /\ rate_limiter' = RL_Take(rate_limiter)
    /\ thr' = [thr EXCEPT ![t].pc = "rl_ret", ![t].trace.admitted = TRUE]
    /\ locks' = LockRelease(locks, "rl")
    /\ UNCHANGED <<gateway, svcVars, now, circuit_breaker, budget_tracker, cb_hist, cb_last,
                   ncalls, last_start, vtxVars>>

\* the bucket holds k whole tokens when the callers arrive; last_start.count
\* remembers k
InitAcquire ==
    /\ gateway = "acq"
    /\ InitServicesIdle
    /\ circuit_breaker = NewCircuitBreaker(5, 60)
    /\ now = 0
    /\ \E k \in 0..MaxLeft :
         /\ rate_limiter = [NewRateLimiter(60, 0) EXCEPT !.tokens = k * TokenScale]
         /\ last_start = [NoStart EXCEPT !.count = k]
    /\ budget_tracker = NewBudgetTracker(UnitsPerUSD, 0)
    /\ thr = [t \in Threads |-> IdleThread]
    /\ cb_hist = NewHist
    /\ cb_last = NoLast
    /\ ncalls = 0
    /\ locks = NoLocks
    /\ InitVertexIdle

AcqSteps(t) == AcqLock(t) \/ AcqRefill(t) \/ AcqTest(t) \/ AcqTake(t)

\* every thread calls acquire() once
NextAcquire == Tick \/ \E t \in Threads : AcqCall(t) \/ AcqSteps(t)

SpecAcquire == InitAcquire /\ [][NextAcquire]_vars

(***************************************************************************)
(* call_llm with every `with self.lock` of the three objects a step of its *)
(* own: taking the lock, then the body and the release.  In these runs     *)
(* trace.admitted holds what rate_limiter.acquire() returned.              *)
(*   bt_lock / bt_check        check_budget: before / inside its lock      *)
(*   rl_lock .. rl_ret         rate_limiter.acquire() (see above)          *)
(*   cb_lock / cb_check        CircuitBreaker.call: before / inside the    *)
(*                             lock of the entry check                     *)
(*   func                      inside _call_gemini                         *)
(*   cb_lock_ok / cb_ok        the success update: before / inside lock    *)
(*   cb_lock_fail / cb_fail    the failure update: before / inside lock    *)
(*   bt_lock_rec / bt_record   record_usage: before / inside its lock      *)
(***************************************************************************)
\* line 172-178: a live call arrives at budget_tracker.check_budget
LKStart(t, prompt, max_tokens, max_retries) ==
    /\ gateway = "lk"
    /\ thr[t].pc = "idle"
    /\ ncalls < NThreads
    /\ ncalls' = ncalls + 1
    /\ thr' = [thr EXCEPT ![t] =
                 [IdleThread EXCEPT !.prompt = prompt, !.max_tokens = max_tokens,
                                    !.max_retries = max_retries,
                                    !.use_gemini = TRUE, !.env_use_gemini = TRUE,
                                    !.live = LiveEnabled(TRUE, TRUE),
                                    !.pc = "bt_lock"]]
    /\ UNCHANGED <<gateway, svcVars, now, rate_limiter, circuit_breaker, budget_tracker,
                   cb_hist, cb_last, last_start, vtxVars, locks>>

\* lines 115, 121, 68, 77, 82: a `with self.lock` is entered
LKLock(t) ==
    /\ gateway = "lk"
    /\ \/ LockTake(t, "bt", "bt_lock", "bt_check")
       \/ LockTake(t, "cb", "cb_lock", "cb_check")
       \/ LockTake(t, "cb", "cb_lock_ok", "cb_ok")
       \/ LockTake(t, "cb", "cb_lock_fail", "cb_fail")
       \/ LockTake(t, "bt", "bt_lock_rec", "bt_record")
    /\ UNCHANGED <<gateway, svcVars, now, rate_limiter, circuit_breaker, budget_tracker,
                   cb_hist, cb_last, ncalls, last_start, vtxVars>>

\* lines 116-117 and 178-180: the body of check_budget, then the branch
LKBudgetCheck(t) ==
    /\ gateway = "lk"
    /\ thr[t].pc = "bt_check"
    /\ LET th == thr[t]
           c == BT_CheckBudget(budget_tracker,
                               EstimatedCost(th.prompt, th.max_tokens), now) IN
       /\ budget_tracker' = c.bt
       /\ thr' = [thr EXCEPT ![t] = IF c.ok THEN [th EXCEPT !.pc = "loop"]
                                    ELSE ToFallback(th)]
    /\ locks' = LockRelease(locks, "bt")
    /\ UNCHANGED <<gateway, svcVars, now, rate_limiter, circuit_breaker, cb_hist, cb_last,
                   ncalls, last_start, vtxVars>>

\* line 183: for attempt in range(max_retries)
LKLoop(t) ==
    /\ gateway = "lk"
    /\ thr[t].pc = "loop"
    /\ thr' = [thr EXCEPT ![t] = IF @.attempt >= @.max_retries THEN ToFallback(@)
                                 ELSE [@ EXCEPT !.pc = "rl_lock"]]
    /\ UNCHANGED <<gateway, svcVars, now, rate_limiter, circuit_breaker, budget_tracker,
                   cb_hist, cb_last, ncalls, last_start, vtxVars, locks>>

\* lines 186-190: acquire() has returned
LKAfterAcquire(t) ==
    /\ gateway = "lk"
    /\ thr[t].pc = "rl_ret"
    /\ thr' = [thr EXCEPT ![t] = IF @.trace.admitted THEN [@ EXCEPT !.pc = "cb_lock"]
                                 ELSE [@ EXCEPT !.pc = "rl_sleep", !.wake = now + 1]]
    /\ UNCHANGED <<gateway, svcVars, now, rate_limiter, circuit_breaker, budget_tracker,
                   cb_hist, cb_last, ncalls, last_start, vtxVars, locks>>

\* lines 69-73: the entry check; the raise leaves the block and is caught at
\* line 205
LKBreakerCheck(t) ==
    /\ gateway = "lk"
    /\ thr[t].pc = "cb_check"
    /\ LET e == CB_Enter(circuit_breaker, now)
           th == thr[t] IN
       /\ circuit_breaker' = e.cb
       /\ thr' = [thr EXCEPT ![t] =
                    IF e.raise
                    THEN AfterException([th EXCEPT !.trace.rejected = @ + 1], now)
                    ELSE [th EXCEPT !.pc = "func", !.trace.invoked = @ + 1]]
    /\ locks' = LockRelease(locks, "cb")
    /\ UNCHANGED <<gateway, svcVars, now, rate_limiter, budget_tracker, cb_hist, cb_last,
                   ncalls, last_start, vtxVars>>

\* line 76: func returns or raises
LKProviderEnd(t, ok, tokens) ==
    /\ gateway = "lk"
    /\ thr[t].pc = "func"
    /\ thr' = [thr EXCEPT ![t].pc = IF ok THEN "cb_lock_ok" ELSE "cb_lock_fail",
                          ![t].tokens = IF ok THEN tokens ELSE 0]
    /\ UNCHANGED <<gateway, svcVars, now, rate_limiter, circuit_breaker, budget_tracker,
                   cb_hist, cb_last, ncalls, last_start, vtxVars, locks>>

\* lines 78-80 and 83-87: the update under the lock, then return or re-raise
LKBreakerUpdate(t) ==
    /\ gateway = "lk"
    /\ thr[t].pc \in {"cb_ok", "cb_fail"}
    /\ LET th == thr[t] IN
       IF th.pc = "cb_ok"
       THEN /\ circuit_breaker' = CB_Success(circuit_breaker)
            /\ thr' = [thr EXCEPT ![t].pc = "bt_lock_rec"]
       ELSE /\ circuit_breaker' = CB_Failure(circuit_breaker, now)
            /\ thr' = [thr EXCEPT ![t] =
                         AfterException([th EXCEPT !.trace.last_fail = now], now)]
    /\ locks' = LockRelease(locks, "cb")
    /\ UNCHANGED <<gateway, svcVars, now, rate_limiter, budget_tracker, cb_hist, cb_last,
                   ncalls, last_start, vtxVars>>

\* lines 122-129 and 203: the body of record_usage, then return result
LKRecord(t) ==
    /\ gateway = "lk"
    /\ thr[t].pc = "bt_record"
    /\ budget_tracker' = BT_RecordUsage(budget_tracker, "gemini-pro", thr[t].tokens, now)
    /\ thr' = [thr EXCEPT ![t].pc = "live", ![t].result = GeminiResult(thr[t].tokens)]
    /\ locks' = LockRelease(locks, "bt")
    /\ UNCHANGED <<gateway, svcVars, now, rate_limiter, circuit_breaker, cb_hist, cb_last,
                   ncalls, last_start, vtxVars>>

\* lines 189-190 and 211: a sleep ends; next iteration
LKWake(t) ==
    /\ gateway = "lk"
    /\ thr[t].pc \in {"rl_sleep", "backoff"}
    /\ now >= thr[t].wake
    /\ thr' = [thr EXCEPT ![t].pc = "loop", ![t].attempt = @ + 1, ![t].wake = 0]
    /\ UNCHANGED <<gateway, svcVars, now, rate_limiter, circuit_breaker, budget_tracker,
                   cb_hist, cb_last, ncalls, last_start, vtxVars, locks>>

\* the objects as concurrent callers may find them: the bucket full or
\* empty, the breaker fresh or one failure short of opening
InitLocks ==
    /\ gateway = "lk"
    /\ InitServicesIdle
    /\ now = RunStart
    /\ rate_limiter \in {NewRateLimiter(60, 0), DrainedRateLimiter}
    /\ circuit_breaker \in {NewCircuitBreaker(5, 60), NearlyOpenBreaker}
    /\ cb_hist = NewHist
    /\ budget_tracker = NewBudgetTracker(UnitsPerUSD, 0)
    /\ thr = [t \in Threads |-> IdleThread]
    /\ cb_last = NoLast
    /\ ncalls = 0
    /\ last_start = NoStart
    /\ locks = NoLocks
    /\ InitVertexIdle

LKSteps(t) ==
    \/ LKLock(t)
    \/ LKBudgetCheck(t)
    \/ LKLoop(t)
    \/ AcqSteps(t)
    \/ LKAfterAcquire(t)
    \/ LKBreakerCheck(t)
    \/ \E ok \in BOOLEAN : LKProviderEnd(t, ok, 10)
    \/ LKBreakerUpdate(t)
    \/ LKRecord(t)
    \/ LKWake(t)

\* every thread makes one call and keeps its result
NextLocks ==
    \/ Tick
    \/ \E t \in Threads : LKStart(t, <<"price">>, 256, 2) \/ LKSteps(t)

SpecLocks == InitLocks /\ [][NextLocks]_vars

(***************************************************************************)
(* VertexAIClient.call_model run by asyncio task k.  Tasks share one event *)
(* loop: a step runs from one suspension point (an await that yields) to   *)
(* the next.  Acquiring a free asyncio.Lock does not yield.                *)
(*   v_rl_wait   queued on rate_limit_lock                                 *)
(*   v_rl_sleep  in asyncio.sleep(wait_time) of _rate_limit_acquire,       *)
(*               holding rate_limit_lock                                   *)
(*   v_func      in _call_vertex_ai (run_in_executor)                      *)
(*   v_backoff   in asyncio.sleep(wait_time) of the retry loop             *)
(*   fallback    in asyncio.sleep(0.1) of _fallback_response               *)
(*   live        about to return the provider's response                   *)
(***************************************************************************)
\* asyncio.Lock.release: the longest waiter is woken and takes the lock
V_Release(v) ==
    LET l == v.rate_limit_lock IN
    IF l.waiters = <<>>
    THEN [v EXCEPT !.rate_limit_lock.locked_by = 0]
    ELSE [v EXCEPT !.rate_limit_lock = [locked_by |-> Head(l.waiters),
                                        waiters |-> Tail(l.waiters)]]

\* line 145, 189, 197, 199: return await self._fallback_response(prompt, model)
VToFallback(tk) ==
    [tk EXCEPT !.pc = "fallback", !.result = FallbackResponse(tk.prompt, tk.model)]

\* lines 153-155: an attempt of the loop reaches the provider call
VInvoke(tk, v, today) ==
    [tk EXCEPT !.pc = "v_func",
               !.trace.while_open = @ \/ v.circuit_open,
               !.trace.over_budget = @ \/ TodaySpend(v, today) > v.daily_budget_usd]

\* line 151: for attempt in range(max_retries)
VEnterLoop(tk, v, today) ==
    IF tk.max_retries <= 0 THEN VToFallback(tk)
    ELSE VInvoke([tk EXCEPT !.attempt = 0], v, today)

\* the body of _rate_limit_acquire once task k has rate_limit_lock
VRateLimitBody(k, tk, v) ==
    LET a == V_Acquire(v, vnow) IN
    IF a.wait = 0
    THEN LET v2 == V_Release(a.v) IN
         /\ vtx' = v2
         /\ task' = [task EXCEPT ![k] = VEnterLoop(tk, v2, day)]
    ELSE /\ vtx' = [a.v EXCEPT !.rate_limit_lock.locked_by = k]
         /\ task' = [task EXCEPT ![k] = [tk EXCEPT !.pc = "v_rl_sleep",
                                                   !.wake = vnow + a.wait]]

\* lines 144-155: from the call to the first suspension point
VStart(k, limit, prompt, model, max_retries) ==
    /\ gateway = "vtx"
    /\ task[k].pc = "idle"
    /\ ncalls < limit
    /\ ncalls' = ncalls + 1
    /\ LET tk == [IdleTask EXCEPT !.prompt = prompt, !.model = model,
                                  !.max_retries = max_retries]
           l == vtx.rate_limit_lock
       IN IF UseFallback(vtx)
          THEN /\ task' = [task EXCEPT ![k] = VToFallback(tk)]
               /\ vtx' = vtx
          ELSE IF l.locked_by # 0 \/ l.waiters # <<>>
          THEN /\ task' = [task EXCEPT ![k] = [tk EXCEPT !.pc = "v_rl_wait"]]
               /\ vtx' = [vtx EXCEPT !.rate_limit_lock.waiters = Append(@, k)]
          ELSE VRateLimitBody(k, tk, vtx)
    /\ UNCHANGED <<gateway, svcVars, llmVars, vnow, day, v_recorded>>

\* line 318: the queued task is given rate_limit_lock and runs the body
VLockGranted(k) ==
    /\ gateway = "vtx"
    /\ task[k].pc = "v_rl_wait"
    /\ vtx.rate_limit_lock.locked_by = k
    /\ VRateLimitBody(k, task[k], vtx)
    /\ UNCHANGED <<gateway, svcVars, llmVars, ncalls, vnow, day, v_recorded>>

\* lines 332-333: the sleep ends, the bucket is zeroed, the lock released
VRateWake(k) ==
    /\ gateway = "vtx"
    /\ task[k].pc = "v_rl_sleep"
    /\ vnow >= task[k].wake
    /\ LET v2 == V_Release([vtx EXCEPT !.rate_limit_tokens = 0]) IN
       /\ vtx' = v2
       /\ task' = [task EXCEPT ![k] = VEnterLoop([@ EXCEPT !.wake = 0], v2, day)]
    /\ UNCHANGED <<gateway, svcVars, llmVars, ncalls, vnow, day, v_recorded>>

\* floor of 2 ** attempt seconds in units of vnow (tokens_per_minute *
\* VTokenScale / 60 units a second); the jitter only lengthens the sleep
VBackoffUnits(attempt) == (Pow2(attempt) * VertexBucket * VTokenScale) \div 60

\* lines 180-197: the except branch of the retry loop
VAfterException(tk, v, t) ==
    IF v.failure_count >= VertexThreshold THEN VToFallback(tk)
    ELSE IF tk.attempt < tk.max_retries - 1
    THEN [tk EXCEPT !.pc = "v_backoff", !.wake = t + VBackoffUnits(tk.attempt)]
    ELSE VToFallback(tk)

\* lines 155-197: _call_vertex_ai returns a response or raises
VProviderReturn(k, ok, output_tokens) ==
    /\ gateway = "vtx"
    /\ task[k].pc = "v_func"
    /\ IF ok
       THEN LET tk == task[k]
                r == TrackCost(V_Success(vtx), tk.model, Len(tk.prompt),
                               output_tokens, day)
            IN /\ vtx' = r.v
               /\ v_recorded' = v_recorded + r.cost
               /\ task' = [task EXCEPT ![k] =
                             [tk EXCEPT !.pc = "live",
                                        !.result = LiveResponse(tk.prompt, tk.model,
                                                                output_tokens, r.cost)]]
       ELSE LET v2 == V_Failure(vtx, vnow) IN
            /\ vtx' = v2
            /\ v_recorded' = v_recorded
            /\ task' = [task EXCEPT ![k] = VAfterException(@, v2, vnow)]
    /\ UNCHANGED <<gateway, svcVars, llmVars, ncalls, vnow, day>>

\* line 194 ends: the next attempt of the loop
VBackoffWake(k) ==
    /\ gateway = "vtx"
    /\ task[k].pc = "v_backoff"
    /\ vnow >= task[k].wake
    /\ task' = [task EXCEPT ![k] =
                  VInvoke([@ EXCEPT !.attempt = @ + 1, !.wake = 0], vtx, day)]
    /\ UNCHANGED <<gateway, svcVars, llmVars, ncalls, vtx, vnow, day, v_recorded>>

\* call_model returns to its caller
VReturn(k) ==
    /\ gateway = "vtx"
    /\ task[k].pc \in {"fallback", "live"}
    /\ task' = [task EXCEPT ![k] = IdleTask]
    /\ UNCHANGED <<gateway, svcVars, llmVars, ncalls, vtx, vnow, day, v_recorded>>

\* time passes for the Vertex client
VTick ==
    /\ gateway \in {"vtx", "adm"}
    /\ vnow < MaxVTime
    /\ vnow' = vnow + 1
    /\ UNCHANGED <<gateway, svcVars, llmVars, ncalls, vtx, task, day, v_recorded>>

\* midnight: datetime.now() moves to the next calendar day
NewDay ==
    /\ gateway \in {"vtx", "sum"}
    /\ day < MaxDay
    /\ day' = day + 1
    /\ UNCHANGED <<gateway, svcVars, llmVars, ncalls, vtx, task, vnow, v_recorded>>

\* a client that has served calls before the observed run: the bucket full
\* or empty, the failure counter fresh or one or two failures short of
\* opening the circuit
InitVtx ==
    /\ gateway = "vtx"
    /\ InitServicesIdle
    /\ circuit_breaker = NewCircuitBreaker(5, 60)
    /\ InitLLMIdle
    /\ \E initialized \in BOOLEAN, tokens \in {0, VertexBucket * VTokenScale},
          failures \in {0, VertexThreshold - 2, VertexThreshold - 1} :
         vtx = [NewVertexClient(SmallBudget, initialized, FALSE) EXCEPT
                  !.rate_limit_tokens = tokens,
                  !.failure_count = failures,
                  !.last_failure_time = IF failures = 0 THEN NoneTime ELSE 0]
    /\ task = [k \in Threads |-> IdleTask]
    /\ vnow = 0
    /\ day = 0
    /\ v_recorded = 0

VModels == {"gemini-2.0-flash", "text-bison"}

VSteps(k) ==
    \/ VLockGranted(k)
    \/ VRateWake(k)
    \/ \E ok \in BOOLEAN : VProviderReturn(k, ok, 2)
    \/ VBackoffWake(k)
    \/ VReturn(k)

NextVtx ==
    \/ VTick
    \/ NewDay
    \/ \E k \in Threads, model \in VModels :
         VStart(k, MaxCalls, <<"price">>, model, 2)
    \/ \E k \in Threads : VSteps(k)

SpecVtx == InitVtx /\ [][NextVtx]_vars

\* one caller at a time, with the inputs varied
VStepsSeq(k) ==
    \/ VRateWake(k)
    \/ \E ok \in BOOLEAN : VProviderReturn(k, ok, 2)
    \/ VBackoffWake(k)
    \/ VReturn(k)

NextVtxSeq ==
    \/ VTick
    \/ NewDay
    \/ \E max_retries \in {0, 1, 3}, model \in VModels :
         VStart(1, SeqCalls, <<"price">>, model, max_retries)
    \/ VStepsSeq(1)

(***************************************************************************)
(* Both gateways, one caller at a time: a run drives call_llm or           *)
(* call_model.                                                             *)
(***************************************************************************)
InitGatewaySeq == InitLLM \/ InitVtx

NextGatewaySeq == NextLLMSeq \/ NextVtxSeq

SpecGatewaySeq == InitGatewaySeq /\ [][NextGatewaySeq]_vars

(***************************************************************************)
(* Both token buckets under concurrent callers.                            *)
(***************************************************************************)
InitRL ==
    /\ gateway = "rl"
    /\ InitServicesIdle
    /\ circuit_breaker = NewCircuitBreaker(5, 60)
    /\ now = 0
    /\ \E cpm \in {1, 60}, full \in BOOLEAN :
         rate_limiter = [NewRateLimiter(cpm, 0) EXCEPT
                           !.tokens = IF full THEN @ ELSE 0]
    /\ budget_tracker = NewBudgetTracker(UnitsPerUSD, 0)
    /\ thr = [t \in Threads |-> IdleThread]
    /\ cb_hist = NewHist
    /\ cb_last = NoLast
    /\ ncalls = 0
    /\ last_start = NoStart
    /\ locks = NoLocks
    /\ InitVertexIdle

InitBuckets == InitRL \/ InitVtx

NextBuckets == NextRL \/ NextVtx

SpecBuckets == InitBuckets /\ [][NextBuckets]_vars

(***************************************************************************)
(* VertexAIClient._fallback_response(prompt, model) on every prompt of up  *)
(* to MaxPromptLen words.                                                  *)
(***************************************************************************)
Prompts == UNION {[1..n -> Words] : n \in 0..MaxPromptLen}

FBRespond(prompt, model) ==
    /\ gateway = "fb"
    /\ task' = [task EXCEPT ![1] =
                  VToFallback([IdleTask EXCEPT !.prompt = prompt, !.model = model])]
    /\ UNCHANGED <<gateway, svcVars, llmVars, ncalls, vtx, vnow, day, v_recorded>>

InitFallback ==
    /\ gateway = "fb"
    /\ InitServicesIdle
    /\ circuit_breaker = NewCircuitBreaker(5, 60)
    /\ InitLLMIdle
    /\ InitVertexIdle

NextFallback == \E prompt \in Prompts, model \in VModels : FBRespond(prompt, model)

SpecFallback == InitFallback /\ [][NextFallback]_vars

(***************************************************************************)
(* Both fallback generators on the same prompt, with the breaker of        *)
(* llm_client and the circuit of the Vertex client closed or open.         *)
(***************************************************************************)
FBRespondBoth(prompt, model) ==
    /\ gateway = "fb"
    /\ task' = [task EXCEPT ![1] =
                  VToFallback([IdleTask EXCEPT !.prompt = prompt, !.model = model])]
    /\ thr' = [thr EXCEPT ![1] = ToFallback([IdleThread EXCEPT !.prompt = prompt])]
    /\ UNCHANGED <<gateway, svcVars, now, rate_limiter, circuit_breaker, budget_tracker,
                   cb_hist, cb_last, ncalls, last_start, vtx, vnow, day, v_recorded,
                   locks>>

InitTexts ==
    /\ gateway = "fb"
    /\ InitServicesIdle
    /\ circuit_breaker \in {NewCircuitBreaker(5, 60), OpenBreaker}
    /\ InitLLMIdle
    /\ \E open \in BOOLEAN :
         vtx = [NewVertexClient(0, TRUE, FALSE) EXCEPT
                  !.circuit_open = open,
                  !.failure_count = IF open THEN VertexThreshold ELSE 0]
    /\ task = [k \in Threads |-> IdleTask]
    /\ vnow = 0
    /\ day = 0
    /\ v_recorded = 0

NextTexts == \E prompt \in Prompts, model \in VModels : FBRespondBoth(prompt, model)

SpecTexts == InitTexts /\ [][NextTexts]_vars

(***************************************************************************)
(* VertexAIClient._track_cost, get_cost_summary and get_status awaited by  *)
(* concurrent tasks.  The bodies under cost_lock have no suspension point  *)
(* and get_status is synchronous, so each call is one step; a task keeps   *)
(* the dict it was given while other tasks run.                            *)
(***************************************************************************)
TrackCostCall(k, model, input_tokens, output_tokens) ==
    /\ gateway = "sum"
    /\ ncalls < SeqCalls
    /\ ncalls' = ncalls + 1
    /\ LET r == TrackCost(vtx, model, input_tokens, output_tokens, day) IN
       /\ vtx' = r.v
       /\ v_recorded' = v_recorded + r.cost
    /\ UNCHANGED <<gateway, svcVars, llmVars, task, vnow, day>>

GetCostSummary(k) ==
    /\ gateway = "sum"
    /\ task' = [task EXCEPT ![k].summary = CostSummary(vtx, day)]
    /\ UNCHANGED <<gateway, svcVars, llmVars, ncalls, vtx, vnow, day, v_recorded>>

GetStatus(k) ==
    /\ gateway = "sum"
    /\ task' = [task EXCEPT ![k].status = Status(vtx)]
    /\ UNCHANGED <<gateway, svcVars, llmVars, ncalls, vtx, vnow, day, v_recorded>>

\* a client that has served calls: some failures counted, the circuit open
\* or not
InitIntrospect ==
    /\ gateway = "sum"
    /\ InitServicesIdle
    /\ circuit_breaker = NewCircuitBreaker(5, 60)
    /\ InitLLMIdle
    /\ \E initialized \in BOOLEAN, failures \in {0, VertexThreshold} :
         vtx = [NewVertexClient(SmallBudget, initialized, FALSE) EXCEPT
                  !.failure_count = failures,
                  !.circuit_open = failures >= VertexThreshold,
                  !.last_failure_time = IF failures = 0 THEN NoneTime ELSE 0]
    /\ task = [k \in Threads |-> IdleTask]
    /\ vnow = 0
    /\ day = 0
    /\ v_recorded = 0

NextIntrospect ==
    \/ NewDay
    \/ \E k \in Threads :
          \/ \E model \in VModels \cup {"gemini-1.5-pro"}, output_tokens \in {0, 2} :
                TrackCostCall(k, model, 1, output_tokens)
          \/ GetCostSummary(k)
          \/ GetStatus(k)

SpecIntrospect == InitIntrospect /\ [][NextIntrospect]_vars

(***************************************************************************)
(* Both gateways under concurrent callers, with the scheduling stated:     *)
(* time passes while a caller sleeps, every thread and every asyncio task  *)
(* that can take a step takes one, and a provider call returns or raises.  *)
(***************************************************************************)
\* time.time() advances: always up to the horizon of the run, and beyond it
\* for as long as a caller of call_llm is in time.sleep
LLMTimePasses ==
    /\ gateway = "llm"
    /\ \/ now < Epoch + MaxLLMTime
       \/ \E t \in Threads : thr[t].pc \in {"rl_sleep", "backoff"} /\ thr[t].wake > now
    /\ now' = now + 1
    /\ UNCHANGED <<gateway, svcVars, rate_limiter, circuit_breaker, budget_tracker, thr,
                   cb_hist, cb_last, ncalls, last_start, vtxVars, locks>>

\* the same for asyncio.sleep in call_model
VTimePasses ==
    /\ gateway = "vtx"
    /\ \/ vnow < MaxVTime
       \/ \E k \in Threads : task[k].pc \in {"v_rl_sleep", "v_backoff"} /\ task[k].wake > vnow
    /\ vnow' = vnow + 1
    /\ UNCHANGED <<gateway, svcVars, llmVars, ncalls, vtx, task, day, v_recorded>>

InitLive == InitLLM \/ InitVtx

NextLive ==
    \/ LLMTimePasses
    \/ VTimePasses
    \/ \E t \in Threads, max_retries \in {0, 2} :
          LLMStart(t, MaxCalls, <<"price">>, 256, max_retries, TRUE, TRUE)
    \/ \E t \in Threads : LLMSteps(t)
    \/ \E k \in Threads, max_retries \in {0, 2} :
          VStart(k, MaxCalls, <<"price">>, "gemini-2.0-flash", max_retries)
    \/ \E k \in Threads : VSteps(k)

FairLive ==
    /\ WF_vars(LLMTimePasses)
    /\ WF_vars(VTimePasses)
    /\ \A t \in Threads : WF_vars(LLMSteps(t))
    /\ \A k \in Threads : WF_vars(VSteps(k))

SpecLive == InitLive /\ [][NextLive]_vars /\ FairLive

(***************************************************************************)
(* BudgetTracker.check_budget and record_usage called directly by thread   *)
(* t.  Each body runs under BudgetTracker.lock, so the calls of concurrent *)
(* callers take effect one after the other and a call is one step.  pc:    *)
(*   bt_true, bt_false     check_budget is returning True / False          *)
(*   bt_done               record_usage is returning                       *)
(* The clock is looked at on the half days and one second after them.      *)
(***************************************************************************)
HalfDay == DaySeconds \div 2

\* the calendar date of time t as a day number; midnight at multiples of
\* DaySeconds
Date(t) == t \div DaySeconds

\* the keys of BudgetTracker.model_costs
BTPriced == {"gemini-pro", "gpt-4o", "claude-3"}

BTModels == {"gemini-pro", "gpt-4o", "text-bison"}

\* lines 113-117: check_budget(estimated_cost), the body under the lock
BTCheck(t, estimated_cost) ==
    /\ gateway = "bt"
    /\ thr[t].pc = "idle"
    /\ ncalls < MaxBTCalls
    /\ ncalls' = ncalls + 1
    /\ LET c == BT_CheckBudget(budget_tracker, estimated_cost, now) IN
       /\ budget_tracker' = c.bt
       /\ thr' = [thr EXCEPT ![t].pc = IF c.ok THEN "bt_true" ELSE "bt_false",
                             ![t].estimated_cost = estimated_cost]
    /\ last_start' = [NoStart EXCEPT !.time = now, !.spent = budget_tracker.daily_spent]
    /\ UNCHANGED <<gateway, svcVars, now, rate_limiter, circuit_breaker, cb_hist, cb_last,
                   vtxVars, locks>>

\* lines 119-129: record_usage(model, tokens), the body under the lock
BTRecord(t, model, tokens) ==
    /\ gateway = "bt"
    /\ thr[t].pc = "idle"
    /\ ncalls < MaxBTCalls
    /\ ncalls' = ncalls + 1
    /\ budget_tracker' = BT_RecordUsage(budget_tracker, model, tokens, now)
    /\ thr' = [thr EXCEPT ![t].pc = "bt_done", ![t].model = model,
                          ![t].tokens = tokens]
    /\ last_start' = [NoStart EXCEPT !.time = now, !.spent = budget_tracker.daily_spent]
    /\ UNCHANGED <<gateway, svcVars, now, rate_limiter, circuit_breaker, cb_hist, cb_last,
                   vtxVars, locks>>

BTReturn(t) ==
    /\ gateway = "bt"
    /\ thr[t].pc \in {"bt_true", "bt_false", "bt_done"}
    /\ thr' = [thr EXCEPT ![t] = IdleThread]
    /\ UNCHANGED <<gateway, svcVars, now, rate_limiter, circuit_breaker, budget_tracker,
                   cb_hist, cb_last, ncalls, last_start, vtxVars, locks>>

\* time passes to the next instant looked at
BTTick(d) ==
    /\ gateway = "bt"
    /\ (now + d) % HalfDay \in {0, 1}
    /\ now + d <= BTDays * DaySeconds + 1
    /\ now' = now + d
    /\ UNCHANGED <<gateway, svcVars, rate_limiter, circuit_breaker, budget_tracker, thr,
                   cb_hist, cb_last, ncalls, last_start, vtxVars, locks>>

\* the tracker is constructed at midnight or at noon of day 0
InitBT ==
    /\ gateway = "bt"
    /\ InitServicesIdle
    /\ now \in {0, HalfDay}
    /\ budget_tracker = NewBudgetTracker(UnitsPerUSD, now)
    /\ rate_limiter = NewRateLimiter(60, 0)
    /\ circuit_breaker = NewCircuitBreaker(5, 60)
    /\ thr = [t \in Threads |-> IdleThread]
    /\ cb_hist = NewHist
    /\ cb_last = NoLast
    /\ ncalls = 0
    /\ last_start = [NoStart EXCEPT !.time = now]
    /\ locks = NoLocks
    /\ InitVertexIdle

NextBT ==
    \/ \E d \in {1, HalfDay - 1, HalfDay} : BTTick(d)
    \/ \E estimated_cost \in {0, UnitsPerUSD \div 100, UnitsPerUSD} :
          BTCheck(1, estimated_cost)
    \/ \E model \in BTModels, tokens \in {1000, 40000} : BTRecord(1, model, tokens)
    \/ BTReturn(1)

SpecBT == InitBT /\ [][NextBT]_vars

(***************************************************************************)
(* Both cost ledgers: a run drives a BudgetTracker or a VertexAIClient.    *)
(***************************************************************************)
InitLedgers == InitBT \/ InitVtx

NextLedgers == NextBT \/ NextVtx

SpecLedgers == InitLedgers /\ [][NextLedgers]_vars

(***************************************************************************)
(* Claims about CircuitBreaker.call.                                       *)
(***************************************************************************)

\* C1: per HALF_OPEN window at most one caller is dispatched to the guarded
\* operation, however many call concurrently once the cool-down has elapsed.
C1_SingleTrialPerWindow == cb_hist.window_trials <= 1

\* C3: sequential use from CLOSED with count 0.  Until the breaker first
\* opens it is CLOSED, its failure count is the number of failed operations
\* since the last success (so one success resets it to 0) and that number is
\* below the threshold; when it has opened, and before any probe, exactly
\* failure_threshold consecutive failures have happened.
C3_OpensAtThreshold ==
    /\ ~cb_hist.opened =>
          /\ circuit_breaker.state = "CLOSED"
          /\ circuit_breaker.failure_count = cb_hist.consec
          /\ cb_hist.consec < circuit_breaker.failure_threshold
    /\ cb_hist.opened /\ ~cb_hist.half_opened =>
          /\ circuit_breaker.state = "OPEN"
          /\ cb_hist.consec = circuit_breaker.failure_threshold
          /\ circuit_breaker.failure_count = circuit_breaker.failure_threshold

C3_Witness ==
    /\ gateway = "cb"
    /\ circuit_breaker.failure_threshold = 3
    /\ circuit_breaker.state = "OPEN"
    /\ cb_last.outcome = "fail"
    /\ cb_hist.consec = 3
    /\ ~cb_hist.half_opened

\* C7: threshold 3, cool-down 60 s, one caller.  Three consecutive failures
\* leave the breaker OPEN; a call 59 s after the last failure is rejected
\* without invoking the operation; a call 61 s after it runs as the single
\* HALF_OPEN trial; after a successful trial the breaker is CLOSED with count
\* 0; and a call that finds the breaker CLOSED is never rejected.
C7_OpensAndRecovers ==
    LET L == cb_last
        me == thr[1] IN
    circuit_breaker.failure_threshold = 3 /\ circuit_breaker.timeout = 60 =>
      /\ me.pc = "idle" /\ cb_hist.consec >= 3 => circuit_breaker.state = "OPEN"
      /\ L.entry.state = "OPEN" /\ L.entry.gap = 59 =>
            L.outcome = "rejected" /\ ~L.invoked
      /\ cb_last.rejected_gap # 61
      /\ L.entry.state = "OPEN" /\ L.entry.gap = 61 => L.invoked
      /\ me.pc = "func" /\ me.entry.state = "OPEN" =>
            /\ me.entry.gap > 60
            /\ circuit_breaker.state = "HALF_OPEN"
            /\ cb_hist.window_trials = 1
      /\ me.pc = "idle" /\ L.entry.state = "OPEN" /\ L.outcome = "ok" =>
            circuit_breaker.state = "CLOSED" /\ circuit_breaker.failure_count = 0
      /\ L.outcome = "rejected" => L.entry.state = "OPEN"
      /\ me.pc = "func" /\ me.entry.state = "CLOSED" =>
            circuit_breaker.state = "CLOSED"

C7_Witness ==
    /\ gateway = "cb"
    /\ circuit_breaker.failure_threshold = 3
    /\ cb_last.rejected_gap = 59
    /\ cb_last.entry.state = "OPEN"
    /\ cb_last.entry.gap = 61
    /\ cb_last.outcome = "ok"
    /\ circuit_breaker.state = "CLOSED"
    /\ thr[1].pc = "idle"

(***************************************************************************)
(* Claims about call_llm.                                                  *)
(***************************************************************************)
HalfUSD == UnitsPerUSD \div 2

\* C5: ceiling 1.00 USD, calls issued one after another, each estimated and
\* billed at 0.50 USD.  A call that starts with at most 0.50 USD spent is
\* admitted, a billed call adds exactly 0.50 USD, and the call that starts
\* with 1.00 USD spent (the third) gets the fallback without any provider
\* attempt.
C5_BudgetExhaustion ==
    LET me == thr[1] IN
    /\ budget_tracker.daily_budget = UnitsPerUSD
    /\ me.pc # "idle"
    /\ me.live
    /\ EstimatedCost(me.prompt, me.max_tokens) = HalfUSD
    =>
    /\ last_start.spent <= HalfUSD => me.trace.admitted
    /\ me.pc = "live" /\ me.trace.billed = HalfUSD =>
          budget_tracker.daily_spent = last_start.spent + HalfUSD
    /\ last_start.spent = UnitsPerUSD =>
          /\ ~me.trace.admitted
          /\ me.trace.invoked = 0
          /\ me.pc = "fallback"
          /\ budget_tracker.daily_spent = UnitsPerUSD

C5_Witness ==
    /\ gateway = "llm"
    /\ ncalls = 3
    /\ thr[1].pc = "fallback"
    /\ thr[1].live
    /\ EstimatedCost(thr[1].prompt, thr[1].max_tokens) = HalfUSD
    /\ last_start.spent = UnitsPerUSD
    /\ budget_tracker.daily_spent = UnitsPerUSD
    /\ thr[1].trace.invoked = 0

\* C8: max_retries = 3, the call starts with the breaker CLOSED at zero
\* failures, passes the budget check and is never denied a token; when it
\* ends in the fallback (no attempt succeeded) it has made exactly 3 provider
\* attempts, slept at least 1 s and then at least 2 s between them, started
\* each retry no earlier than that after the failure before it, and at least
\* 3 s have passed since it started.
C8_RetryThenFallback ==
    LET me == thr[1] IN
    /\ me.pc = "fallback"
    /\ me.live
    /\ me.max_retries = 3
    /\ last_start.state = "CLOSED"
    /\ last_start.count = 0
    /\ me.trace.admitted
    /\ me.trace.denied = 0
    =>
    /\ me.trace.invoked = 3
    /\ me.trace.rejected = 0
    /\ me.trace.waits = <<1, 2>>
    /\ me.trace.gaps_ok
    /\ now - last_start.time >= 1 + 2

C8_Witness ==
    /\ gateway = "llm"
    /\ thr[1].pc = "fallback"
    /\ thr[1].max_retries = 3
    /\ last_start.state = "CLOSED"
    /\ last_start.count = 0
    /\ thr[1].trace.denied = 0
    /\ thr[1].trace.invoked = 3
    /\ thr[1].trace.waits = <<1, 2>>

(***************************************************************************)
(* Claims about both gateways, the token buckets and VertexAIClient.       *)
(***************************************************************************)
\* C2: call_llm and call_model never raise to the caller, whatever the
\* provider does on each attempt and whatever the breaker state, bucket
\* level and budget level: no caller is ever left with an exception, and a
\* call that has finished holds a live or a fallback result.
C2_NeverRaises ==
    /\ \A t \in Threads :
         /\ thr[t].pc # "raised"
         /\ thr[t].pc \in {"idle", "loop", "cb_enter", "func", "record", "rl_sleep",
                           "backoff", "fallback", "live"}
    /\ \A k \in Threads :
         /\ task[k].pc # "raised"
         /\ ~task[k].result.raised
         /\ task[k].pc = "live" => task[k].result.source = "vertex_ai"
         /\ task[k].pc = "fallback" => task[k].result.source = "fallback"

\* the provider raised on the last attempt of call_llm and the caller got
\* the fallback
C2_Witness ==
    /\ gateway = "llm"
    /\ thr[1].pc = "fallback"
    /\ thr[1].live
    /\ thr[1].trace.invoked >= 1
    /\ thr[1].trace.last_fail # NoneTime

\* C4: both token buckets stay within 0 <= tokens <= capacity under every
\* interleaving of acquisitions and clock advances.
C4_TokenBounds ==
    /\ 0 <= rate_limiter.tokens
    /\ rate_limiter.tokens <= rate_limiter.max_tokens * TokenScale
    /\ 0 <= vtx.rate_limit_tokens
    /\ vtx.rate_limit_tokens <= vtx.max_tokens * VTokenScale

\* a refill after the clock advanced found the bucket full and capped it
C4_Witness ==
    /\ gateway = "rl"
    /\ rate_limiter.last_refill > 0
    /\ rate_limiter.tokens = rate_limiter.max_tokens * TokenScale - TokenScale
    /\ \E t \in Threads : thr[t].trace.admitted

\* C6: call_model starts no provider attempt while the day's spend is over
\* daily_budget_usd.
C6_NoAttemptOverBudget ==
    \A k \in Threads : ~task[k].trace.over_budget

\* C9: today's spend is never negative, never decreases while the calendar
\* day is the same, and grows by exactly the cost _track_cost returned.
C9_SpendMonotone ==
    [][/\ TodaySpend(vtx, day) >= 0
       /\ day' = day =>
            /\ TodaySpend(vtx', day') >= TodaySpend(vtx, day)
            /\ TodaySpend(vtx', day') - TodaySpend(vtx, day) = v_recorded' - v_recorded]_vars

\* two recordings of the same day have accumulated in one bucket
C9_Witness ==
    /\ gateway = "vtx"
    /\ day \in DOMAIN vtx.daily_costs
    /\ "gemini-2.0-flash" \in DOMAIN vtx.daily_costs[day]
    /\ vtx.daily_costs[day]["gemini-2.0-flash"] = 2 * (3 * 1 + 12 * 2)
    /\ TodaySpend(vtx, day) = v_recorded

\* C10: _fallback_response returns, for every prompt including the empty
\* one, a result with source "fallback" and cost_usd 0.0, and never raises.
C10_FallbackTotal ==
    \A k \in Threads :
        task[k].pc = "fallback" =>
            /\ task[k].result.source = "fallback"
            /\ task[k].result.cost_usd = 0
            /\ ~task[k].result.raised
            /\ task[k].result.finish_reason = "FALLBACK"
            /\ task[k].result.tokens_input = Len(task[k].prompt)

\* the empty prompt has been answered
C10_Witness ==
    /\ gateway = "fb"
    /\ task[1].pc = "fallback"
    /\ task[1].prompt = <<>>
    /\ task[1].result.text = TextDefault
    /\ task[1].result.source = "fallback"

(***************************************************************************)
(* Claims about the live switch, the locks and the breaker's transitions.  *)
(***************************************************************************)
\* thread record th is inside a call_llm whose live provider is disabled
LiveDisabled(th) == th.pc # "idle" /\ ~(th.use_gemini /\ th.env_use_gemini)

\* C11: a call_llm with use_gemini False or USE_GEMINI not "1" goes straight
\* to the deterministic fallback, whose dict has the text, tokens and model
\* of the rule chain, never reaches the provider, and none of its steps
\* changes the rate limiter, the circuit breaker or the budget tracker.
C11_DisabledLiveIsInert ==
    [][\A t \in Threads :
         (thr'[t] # thr[t] /\ (LiveDisabled(thr[t]) \/ LiveDisabled(thr'[t]))) =>
            /\ UNCHANGED <<rate_limiter, circuit_breaker, budget_tracker>>
            /\ LiveDisabled(thr'[t]) =>
                 /\ thr'[t].pc = "fallback"
                 /\ thr'[t].trace.invoked = 0
                 /\ thr'[t].result.text = SelectText(thr'[t].prompt)
                 /\ thr'[t].result.tokens = SplitLen(thr'[t].result.text)
                 /\ thr'[t].result.model = "deterministic-fallback"]_vars

\* use_gemini = False with USE_GEMINI = 1: the fallback is about to be
\* returned while the budget tracker still holds what it held at the start
C11_Witness ==
    /\ gateway = "llm"
    /\ thr[1].pc = "fallback"
    /\ ~thr[1].use_gemini
    /\ thr[1].env_use_gemini
    /\ thr[1].result.text = TextDefault
    /\ budget_tracker.daily_spent = last_start.spent
    /\ ncalls >= 2

\* the acquire() calls that have returned True
Granted == {t \in Threads : thr[t].pc = "rl_ret" /\ thr[t].trace.admitted}

\* C12: with k whole tokens in the bucket and no refill adding any, the
\* acquire() calls that return True have each taken one token, never more
\* than k of them; a call returns False only when no whole token is left, and
\* when all N callers have returned exactly min(N, k) were granted.
C12_AcquireAtomic ==
    (gateway = "acq" /\ rate_limiter.last_refill = 0) =>
        /\ rate_limiter.tokens = (last_start.count - Cardinality(Granted)) * TokenScale
        /\ rate_limiter.tokens >= 0
        /\ (\A t \in Threads : thr[t].pc = "rl_ret") =>
              Cardinality(Granted) = Min(NThreads, last_start.count)

\* one token, every caller has returned: one was granted and one denied
C12_Witness ==
    /\ gateway = "acq"
    /\ rate_limiter.last_refill = 0
    /\ last_start.count = 1
    /\ \A t \in Threads : thr[t].pc = "rl_ret"
    /\ Cardinality(Granted) = 1
    /\ \E t \in Threads : thr[t].trace.denied = 1

\* C13: no task of the Vertex client holds rate_limit_lock (or cost_lock)
\* while it is suspended waiting for bucket capacity, sleeping in backoff or
\* inside the provider call, and so no task is queued on the lock behind a
\* sleeping one.
C13_NoLockWhileSuspended ==
    /\ vtx.cost_lock = 0
    /\ \A k \in Threads :
         task[k].pc \in {"v_rl_sleep", "v_backoff", "v_func"} =>
            vtx.rate_limit_lock.locked_by # k
    /\ \A k \in Threads :
         task[k].pc = "v_rl_wait" =>
            (vtx.rate_limit_lock.locked_by = 0 \/
             task[vtx.rate_limit_lock.locked_by].pc # "v_rl_sleep")

\* the locks thread t holds
HeldBy(t) == {n \in {"rl", "cb", "bt"} : locks[n] = t}

\* where a thread is when it is inside the `with` block of lock n
InsideLock(n) ==
    CASE n = "rl" -> {"rl_refill", "rl_test", "rl_take"}
      [] n = "cb" -> {"cb_check", "cb_ok", "cb_fail"}
      [] n = "bt" -> {"bt_check", "bt_record"}

\* C14: no thread holds more than one of the three locks; a lock is held
\* only by a thread that is executing the statements inside its `with`
\* block, never by one that is in the provider operation, asleep or waiting
\* for another lock (so the holder can always go on and release it: no
\* deadlock, and a rejected caller never waited for an operation in flight).
C14_LockDiscipline ==
    /\ \A t \in Threads :
         /\ Cardinality(HeldBy(t)) <= 1
         /\ thr[t].pc \in {"func", "rl_sleep", "backoff", "idle", "fallback", "live"}
              => HeldBy(t) = {}
    /\ \A n \in {"rl", "cb", "bt"} :
         locks[n] # 0 => thr[locks[n]].pc \in InsideLock(n)

\* the breaker is OPEN, one caller has just been rejected by it while the
\* provider operation of another is still in flight
C14_Witness ==
    /\ gateway = "lk"
    /\ circuit_breaker.state = "OPEN"
    /\ \E t, u \in Threads :
         /\ thr[t].pc = "func"
         /\ thr[u].trace.rejected >= 1
         /\ thr[u].pc \in {"backoff", "loop"}
    /\ \A n \in {"rl", "cb", "bt"} : locks[n] = 0

\* C15: once circuit_breaker.call has rejected an attempt of a call_llm
\* because the breaker is OPEN, that call makes no further attempt and does
\* not sleep: it is on its way to the fallback.
C15_RejectionEndsCall ==
    \A t \in Threads :
        thr[t].trace.rejected >= 1 =>
            /\ thr[t].trace.rejected = 1
            /\ thr[t].pc \notin {"backoff", "rl_sleep", "cb_enter", "func", "record"}
            /\ thr[t].pc = "loop" => thr[t].attempt >= thr[t].max_retries

\* C16: no task starts a provider invocation while the circuit of the Vertex
\* client is open, in particular not a task that was in its retry loop when
\* another task's failure opened the circuit.
C16_NoInvocationWhileOpen ==
    \A k \in Threads : ~task[k].trace.while_open

\* C17: a call_model that starts while the circuit is open, more than the
\* cool-down (VCoolDown units of vnow, whatever its length) after the last
\* recorded failure, is not sent to the fallback: it tries the provider.
C17_TrialAfterCoolDown ==
    [][\A k \in Threads :
         (/\ task[k].pc = "idle"
          /\ task'[k].pc # "idle"
          /\ vtx.vertex_ai_initialized
          /\ ~vtx.force_fallback
          /\ vtx.circuit_open
          /\ vnow - vtx.last_failure_time > VCoolDown)
         => task'[k].pc # "fallback"]_vars

\* C18: under concurrent callers the breaker leaves OPEN only for HALF_OPEN
\* and only when more than the cool-down has passed since last_failure_time;
\* no completion of an operation takes it from OPEN to CLOSED.
C18_OpenLeavesOnlyToHalfOpen ==
    [][(circuit_breaker.state = "OPEN" /\ circuit_breaker'.state # "OPEN") =>
          /\ circuit_breaker'.state = "HALF_OPEN"
          /\ now - circuit_breaker.last_failure_time > circuit_breaker.timeout]_vars

\* C19: with one caller, the trial of a HALF_OPEN breaker that succeeds
\* leaves it CLOSED with failure count 0; one that fails leaves it OPEN with
\* last_failure_time the time of that failure; and a trial is only
\* dispatched when more than the cool-down has passed since the last failure.
C19_HalfOpenTrial ==
    [][/\ (circuit_breaker.state = "HALF_OPEN" /\ thr[1].pc = "func"
             /\ thr'[1].pc = "idle") =>
            IF cb_last'.outcome = "ok"
            THEN /\ circuit_breaker'.state = "CLOSED"
                 /\ circuit_breaker'.failure_count = 0
            ELSE /\ cb_last'.outcome = "fail"
                 /\ circuit_breaker'.state = "OPEN"
                 /\ circuit_breaker'.last_failure_time = now
       /\ (circuit_breaker.state = "OPEN" /\ circuit_breaker'.state = "HALF_OPEN") =>
            now - circuit_breaker.last_failure_time > circuit_breaker.timeout]_vars

\* a trial dispatched from OPEN has failed: the breaker is OPEN again and
\* stamped with the time of that failure
C19_Witness ==
    /\ gateway = "cb"
    /\ circuit_breaker.state = "OPEN"
    /\ cb_last.entry.state = "OPEN"
    /\ cb_last.invoked
    /\ cb_last.outcome = "fail"
    /\ circuit_breaker.last_failure_time = now
    /\ circuit_breaker.failure_count >= circuit_breaker.failure_threshold + 1

\* C20: in every reachable state, concurrent use included, the state is
\* CLOSED, OPEN or HALF_OPEN; while it is OPEN or HALF_OPEN the failure count
\* is at least the threshold and last_failure_time is set; a new breaker is
\* CLOSED with failure count 0.
C20_BreakerInvariant ==
    /\ circuit_breaker.state \in {"CLOSED", "OPEN", "HALF_OPEN"}
    /\ circuit_breaker.state \in {"OPEN", "HALF_OPEN"} =>
         /\ circuit_breaker.failure_count >= circuit_breaker.failure_threshold
         /\ circuit_breaker.last_failure_time # NoneTime
    /\ \A th \in 1..5 :
         /\ NewCircuitBreaker(th, 60).state = "CLOSED"
         /\ NewCircuitBreaker(th, 60).failure_count = 0

\* two callers are inside their operations in one HALF_OPEN window
C20_Witness ==
    /\ gateway = "cb"
    /\ circuit_breaker.state = "HALF_OPEN"
    /\ \A t \in {1, 2} : thr[t].pc = "func"
    /\ circuit_breaker.failure_count >= circuit_breaker.failure_threshold

(***************************************************************************)
(* Claims about cost accounting.                                           *)
(***************************************************************************)
\* C21: with one caller at a time, a call_llm that returns the provider's
\* result has recorded that result's usage once (daily_spent grew by its
\* price since the call began) and a call that returns the fallback has left
\* daily_spent as it was; a call_model result turns live in the one step that
\* adds its cost_usd to the day's buckets and the lifetime total, no other
\* step of call_model changes them, and in both gateways a call that has its
\* successful response only records and returns.
C21_CostMatchesProvenance ==
    [][/\ \A t \in Threads :
            LET th == thr'[t] IN
            /\ th.pc = "live" =>
                 /\ th.trace.billed = th.result.tokens * PricePerToken("gemini-pro")
                 /\ budget_tracker'.daily_spent = last_start'.spent + th.trace.billed
            /\ th.pc = "fallback" =>
                 /\ th.trace.billed = 0
                 /\ budget_tracker'.daily_spent = last_start'.spent
            /\ thr[t].pc = "record" => th.pc \in {"record", "live"}
            /\ thr[t].pc = "live" => th.pc \in {"live", "idle"}
       /\ \A k \in Threads :
            LET tk == task'[k]
                turns_live == task[k].pc = "v_func" /\ tk.pc = "live" IN
            /\ turns_live =>
                 /\ tk.result.source = "vertex_ai"
                 /\ vtx'.total_costs = vtx.total_costs + tk.result.cost_usd
                 /\ TodaySpend(vtx', day') = TodaySpend(vtx, day) + tk.result.cost_usd
            /\ task[k].pc = "live" => tk.pc \in {"live", "idle"}
            /\ tk.pc = "fallback" => tk.result.source = "fallback"
       /\ (\A k \in Threads : ~(task[k].pc = "v_func" /\ task'[k].pc = "live")) =>
            /\ vtx'.daily_costs = vtx.daily_costs
            /\ vtx'.total_costs = vtx.total_costs]_vars

\* a call_llm returns the provider's result of its second attempt, billed once
C21_Witness ==
    /\ gateway = "llm"
    /\ thr[1].pc = "live"
    /\ thr[1].trace.invoked = 2
    /\ thr[1].trace.billed = 10 * PricePerToken("gemini-pro")
    /\ budget_tracker.daily_spent = last_start.spent + 100

\* C22: _track_cost for a model without a price returns cost 0 and leaves
\* the day buckets, their day and model keys, and the lifetime total as they
\* were.
C22_UnknownModelUntracked ==
    [][\A k \in Threads :
         (/\ task[k].pc = "v_func"
          /\ task'[k].pc = "live"
          /\ task[k].model \notin PricedModels) =>
            /\ task'[k].result.cost_usd = 0
            /\ vtx'.daily_costs = vtx.daily_costs
            /\ vtx'.total_costs = vtx.total_costs
            /\ v_recorded' = v_recorded]_vars

\* an unpriced model has answered on a day that has no bucket, after a
\* priced call of the day before
C22_Witness ==
    /\ gateway = "vtx"
    /\ \E k \in Threads :
         /\ task[k].pc = "live"
         /\ task[k].model = "text-bison"
         /\ task[k].result.cost_usd = 0
    /\ day = 1
    /\ DOMAIN vtx.daily_costs = {0}
    /\ vtx.total_costs > 0

\* C23: record_usage for a model that is not in BudgetTracker.model_costs
\* charges nothing: apart from the daily reset, daily_spent is what it was.
C23_UnknownModelFree ==
    [][\A t \in Threads :
         (/\ thr[t].pc = "idle"
          /\ thr'[t].pc = "bt_done"
          /\ thr'[t].model \notin BTPriced) =>
            budget_tracker'.daily_spent
              = BT_ResetIfNeeded(budget_tracker, now).daily_spent]_vars

\* C24: daily_spent never decreases between two consecutive midnights, and
\* the first check_budget or record_usage of a new calendar day sees a
\* spend of zero.
C24_CalendarDayReset ==
    [][/\ Date(now') = Date(now) =>
            budget_tracker'.daily_spent >= budget_tracker.daily_spent
       /\ \A t \in Threads :
            (/\ thr[t].pc = "idle"
             /\ thr'[t].pc \in {"bt_true", "bt_false", "bt_done"}
             /\ Date(now) > Date(last_start.time)) =>
               budget_tracker'.daily_spent
                 = IF thr'[t].pc = "bt_done"
                   THEN thr'[t].tokens * PricePerToken(thr'[t].model)
                   ELSE 0]_vars

\* C25: the day buckets only accumulate: no day key and no model key is
\* ever removed, no bucket value decreases, the buckets of days other than
\* the current one are left as they are, and a day's first bucket holds
\* exactly the cost recorded (it started at zero).
C25_BucketsAccumulate ==
    [][LET dc == vtx.daily_costs
           dc2 == vtx'.daily_costs IN
       /\ \A d \in DOMAIN dc :
            /\ d \in DOMAIN dc2
            /\ \A mo \in DOMAIN dc[d] :
                 /\ mo \in DOMAIN dc2[d]
                 /\ dc2[d][mo] >= dc[d][mo]
            /\ d # day => dc2[d] = dc[d]
       /\ DOMAIN dc2 \subseteq DOMAIN dc \cup {day}
       /\ \A d \in DOMAIN dc2 \ DOMAIN dc :
            SumOver(dc2[d], DOMAIN dc2[d]) = v_recorded' - v_recorded]_vars

\* costs were recorded on two calendar days, each under its own day
C25_Witness ==
    /\ gateway = "vtx"
    /\ DOMAIN vtx.daily_costs = {0, 1}
    /\ vtx.daily_costs[0]["gemini-2.0-flash"] = 3 * 1 + 12 * 2
    /\ vtx.daily_costs[1]["gemini-2.0-flash"] = 3 * 1 + 12 * 2
    /\ day = 1

C27_BudgetCheckedEveryAttempt ==
    \A t \in Threads : ~thr[t].trace.over_budget

\* C28: a pass of call_llm whose token is denied sleeps one second, calls
\* neither the breaker nor the provider and leaves the breaker as it is;
\* the sleep ends in the next pass of the loop, one attempt further; every
\* pass (denied, rejected or invoked) uses up one of the max_retries
\* attempts, and when none is left the call goes to the fallback.
C28_DenialWaitsAndRetries ==
    [][\A t \in Threads :
         LET th == thr[t]
             th2 == thr'[t]
             denied == /\ th.pc = "loop"
                       /\ th.attempt < th.max_retries
                       /\ ~RL_Acquire(rate_limiter, now).granted
         IN
         /\ (denied /\ th2 # th) =>
              /\ th2.pc = "rl_sleep"
              /\ th2.wake = now + 1
              /\ th2.attempt = th.attempt
              /\ th2.trace.denied = th.trace.denied + 1
              /\ th2.trace.invoked = th.trace.invoked
              /\ th2.trace.rejected = th.trace.rejected
              /\ circuit_breaker' = circuit_breaker
         /\ th.pc = "rl_sleep" =>
              /\ circuit_breaker' = circuit_breaker
              /\ th2.pc \in {"rl_sleep", "loop"}
              /\ th2.pc = "loop" => (now >= th.wake /\ th2.attempt = th.attempt + 1)
         /\ th2.trace.denied + th2.trace.invoked + th2.trace.rejected
              <= th2.max_retries
         /\ (th.pc = "loop" /\ th.attempt >= th.max_retries /\ th2 # th) =>
              th2.pc = "fallback"]_vars

\* a call with three attempts was denied a token, waited, and was then
\* admitted to the provider
C28_Witness ==
    /\ gateway = "llm"
    /\ thr[1].pc = "func"
    /\ thr[1].max_retries = 3
    /\ thr[1].attempt = 1
    /\ thr[1].trace.denied = 1
    /\ thr[1].trace.invoked = 1

\* C29: every provider invocation, retries included, follows a token granted
\* to that attempt: call_llm enters the provider only from a pass that took
\* a token, and call_model enters it only out of _rate_limit_acquire.
C29_EveryAttemptAdmitted ==
    [][/\ \A t \in Threads :
            /\ (thr'[t].pc = "func" /\ thr[t].pc # "func") => thr[t].pc = "cb_enter"
            /\ (thr'[t].pc = "cb_enter" /\ thr[t].pc # "cb_enter") =>
                 /\ thr[t].pc = "loop"
                 /\ RL_Acquire(rate_limiter, now).granted
                 /\ rate_limiter' = RL_Acquire(rate_limiter, now).rl
       /\ \A k \in Threads :
            (task'[k].pc = "v_func" /\ task[k].pc # "v_func") =>
               task[k].pc \in {"idle", "v_rl_wait", "v_rl_sleep"}]_vars

\* C30: a failed provider attempt of call_model adds one to failure_count
\* and a successful one sets it to 0 (nothing else changes it); the failure
\* that brings the count to the threshold opens the circuit and its call
\* goes to the fallback without another attempt; and a call_model started
\* while the circuit is open goes to the fallback without invoking the
\* provider.
C30_FailureAccounting ==
    [][/\ \A k \in Threads :
            LET tk == task[k]
                tk2 == task'[k]
                returned == tk.pc = "v_func" /\ tk2.pc # "v_func" IN
            /\ (returned /\ tk2.pc = "live") =>
                 /\ vtx'.failure_count = 0
                 /\ ~vtx'.circuit_open
            /\ (returned /\ tk2.pc # "live") =>
                 /\ vtx'.failure_count = vtx.failure_count + 1
                 /\ vtx'.failure_count >= VertexThreshold =>
                      /\ vtx'.circuit_open
                      /\ tk2.pc = "fallback"
                      /\ tk2.result.source = "fallback"
                 /\ vtx'.failure_count < VertexThreshold =>
                      vtx'.circuit_open = vtx.circuit_open
            /\ (tk.pc = "idle" /\ tk2.pc # "idle" /\ vtx.circuit_open) =>
                 /\ tk2.pc = "fallback"
                 /\ tk2.result.source = "fallback"
                 /\ vtx' = vtx
       /\ (\A k \in Threads : ~(task[k].pc = "v_func" /\ task'[k].pc # "v_func")) =>
            /\ vtx'.failure_count = vtx.failure_count
            /\ vtx'.circuit_open = vtx.circuit_open]_vars

\* the fifth failure opened the circuit, its call returned the fallback, and
\* the next call is answered by the fallback as well
C30_Witness ==
    /\ gateway = "vtx"
    /\ vtx.vertex_ai_initialized
    /\ vtx.circuit_open
    /\ vtx.failure_count = VertexThreshold
    /\ ncalls = 2
    /\ \E k \in Threads :
         /\ task[k].pc = "fallback"
         /\ \A j \in Threads \ {k} : task[j].pc = "idle"

\* C31: every call_llm and every call_model that has started returns; a
\* call makes at most max_retries provider invocations and at most
\* max_retries - 1 backoff sleeps, and with max_retries = 0 it leaves with
\* the fallback without having invoked the provider.
C31_TerminatesWithinAttempts ==
    /\ \A t \in Threads :
         /\ (thr[t].pc # "idle") ~> (thr[t].pc = "idle")
         /\ (task[t].pc # "idle") ~> (task[t].pc = "idle")
    /\ [](\A t \in Threads :
            LET th == thr[t]
                tk == task[t] IN
            /\ th.trace.invoked <= th.max_retries
            /\ Len(th.trace.waits) <= Max(0, th.max_retries - 1)
            /\ th.pc \in {"func", "record"} => th.attempt + 1 <= th.max_retries
            /\ th.pc = "backoff" => th.attempt + 1 <= th.max_retries - 1
            /\ (th.pc # "idle" /\ th.max_retries = 0) => th.pc \in {"loop", "fallback"}
            /\ tk.pc = "v_func" => tk.attempt + 1 <= tk.max_retries
            /\ tk.pc = "v_backoff" => tk.attempt + 1 <= tk.max_retries - 1
            /\ (tk.pc # "idle" /\ tk.max_retries = 0) =>
                 tk.pc \in {"v_rl_wait", "v_rl_sleep", "fallback"}
            /\ tk.pc = "live" => tk.max_retries > 0)

\* a call_llm whose two provider attempts both failed is leaving with the
\* fallback after one backoff sleep
C31_Witness ==
    /\ gateway = "llm"
    /\ \E t \in Threads :
         /\ thr[t].pc = "fallback"
         /\ thr[t].max_retries = 2
         /\ thr[t].trace.invoked = 2
         /\ Len(thr[t].trace.waits) = 1

(***************************************************************************)
(* Claims about introspection, the fallback texts and the ledgers.         *)
(***************************************************************************)
\* C32: get_cost_summary and get_status change nothing of the client, and
\* the dict a task got from get_cost_summary reports a daily spend equal to
\* the sum of the per-model breakdown it reports, whatever _track_cost
\* calls of other tasks are interleaved.
C32_IntrospectionReadOnly ==
    /\ [][\A k \in Threads :
            (task'[k].summary # task[k].summary \/ task'[k].status # task[k].status)
               => vtx' = vtx]_vars
    /\ [](\A k \in Threads :
            LET s == task[k].summary
                b == ReportedBreakdown(s, vtx) IN
            s.taken => s.daily_cost_usd = SumOver(b, DOMAIN b))

\* the keywords of the rules in their order, and the text of each rule
Rules == <<{"bundle"}, {"price", "pricing"}, {"cost"}, {"compliance", "tax"},
           {"recommend"}>>

RuleTexts == <<TextBundle, TextPricing, TextCost, TextCompliance, TextRecommend>>

Matches(prompt, j) == \E kw \in Rules[j] : Contains(prompt, kw)

\* C33: the fallback text is that of the first rule, in the order bundle,
\* price/pricing, cost, compliance/tax, recommend, with a keyword in the
\* lower-cased prompt, and the neutral text when no rule matches;
\* _deterministic_fallback and _fallback_response give the same text for the
\* same prompt, and a repeated prompt gets the same text again, whatever the
\* model argument and the state of the breakers.
C33_FallbackTextByPriority ==
    /\ [](task[1].pc = "fallback" =>
            LET p == task[1].prompt
                text == task[1].result.text IN
            /\ \/ \E j \in 1..Len(Rules) :
                     /\ Matches(p, j)
                     /\ \A i \in 1..(j - 1) : ~Matches(p, i)
                     /\ text = RuleTexts[j]
               \/ /\ \A j \in 1..Len(Rules) : ~Matches(p, j)
                  /\ text = TextDefault
            /\ thr[1].pc = "fallback"
            /\ thr[1].prompt = p
            /\ thr[1].result.text = text)
    /\ [][(task[1].pc = "fallback" /\ task'[1].prompt = task[1].prompt) =>
            /\ task'[1].result.text = task[1].result.text
            /\ thr'[1].result.text = thr[1].result.text]_vars

\* a prompt with "COST" before "price" has been answered with the pricing
\* text by both generators while the breakers are open
C33_Witness ==
    /\ gateway = "fb"
    /\ task[1].pc = "fallback"
    /\ task[1].prompt = <<"COST", "price">>
    /\ task[1].result.text = TextPricing
    /\ thr[1].result.text = TextPricing
    /\ vtx.circuit_open
    /\ circuit_breaker.state = "OPEN"

\* the sum of every bucket of every day of the client's ledger
LedgerSum(v) ==
    SumOver([d \in DOMAIN v.daily_costs |->
               SumOver(v.daily_costs[d], DOMAIN v.daily_costs[d])],
            DOMAIN v.daily_costs)

\* C34: in every state total_costs equals the sum of all per-day, per-model
\* buckets of daily_costs (and the sum of the costs _track_cost returned).
C34_LedgerConsistent ==
    /\ vtx.total_costs = LedgerSum(vtx)
    /\ vtx.total_costs = v_recorded

\* two tasks have recorded costs on two calendar days
C34_Witness ==
    /\ gateway = "vtx"
    /\ DOMAIN vtx.daily_costs = {0, 1}
    /\ vtx.total_costs = 2 * (3 * 1 + 12 * 2)
    /\ \A k \in Threads : task[k].pc = "live"

(***************************************************************************)
(* VertexAIClient._rate_limit_acquire() called directly by asyncio task k, *)
(* one call after another: the admissions of the bucket are counted.       *)
(***************************************************************************)
\* lines 318-333 once task k has rate_limit_lock: the call returns at once
\* with a token, or sleeps holding the lock
VAcquireBody(k, v) ==
    LET a == V_Acquire(v, vnow) IN
    IF a.wait = 0
    THEN /\ vtx' = V_Release(a.v)
         /\ task' = [task EXCEPT ![k] = IdleTask]
         /\ granted' = granted + 1
    ELSE /\ vtx' = [a.v EXCEPT !.rate_limit_lock.locked_by = k]
         /\ task' = [task EXCEPT ![k] = [IdleTask EXCEPT !.pc = "v_rl_sleep",
                                                         !.wake = vnow + a.wait]]
         /\ granted' = granted

\* line 318: the call takes rate_limit_lock or queues on it
VAcquireCall(k) ==
    /\ gateway = "adm"
    /\ task[k].pc = "idle"
    /\ ncalls < MaxAcquires
    /\ ncalls' = ncalls + 1
    /\ LET l == vtx.rate_limit_lock IN
       IF l.locked_by # 0 \/ l.waiters # <<>>
       THEN /\ task' = [task EXCEPT ![k] = [IdleTask EXCEPT !.pc = "v_rl_wait"]]
            /\ vtx' = [vtx EXCEPT !.rate_limit_lock.waiters = Append(@, k)]
            /\ granted' = granted
       ELSE VAcquireBody(k, vtx)
    /\ UNCHANGED <<gateway, llmVars, vnow, day, v_recorded, memory, stored,
                   sessions, fs, appended, last_call>>

\* line 318: the queued task is given rate_limit_lock and runs the body
VAcquireGranted(k) ==
    /\ gateway = "adm"
    /\ task[k].pc = "v_rl_wait"
    /\ vtx.rate_limit_lock.locked_by = k
    /\ VAcquireBody(k, vtx)
    /\ UNCHANGED <<gateway, llmVars, ncalls, vnow, day, v_recorded, memory,
                   stored, sessions, fs, appended, last_call>>

\* lines 332-333: the sleep ends, the bucket is zeroed, the call returns
VAcquireWake(k) ==
    /\ gateway = "adm"
    /\ task[k].pc = "v_rl_sleep"
    /\ vnow >= task[k].wake
    /\ vtx' = V_Release([vtx EXCEPT !.rate_limit_tokens = 0])
    /\ task' = [task EXCEPT ![k] = IdleTask]
    /\ granted' = granted + 1
    /\ UNCHANGED <<gateway, llmVars, ncalls, vnow, day, v_recorded, memory,
                   stored, sessions, fs, appended, last_call>>

\* a client as constructed, or one whose bucket has just been emptied
InitAdmission ==
    /\ gateway = "adm"
    /\ InitServicesIdle
    /\ circuit_breaker = NewCircuitBreaker(5, 60)
    /\ InitLLMIdle
    /\ \E tokens \in {0, VertexBucket * VTokenScale} :
         vtx = [NewVertexClient(SmallBudget, TRUE, FALSE) EXCEPT
                  !.rate_limit_tokens = tokens]
    /\ task = [k \in Threads |-> IdleTask]
    /\ vnow = 0
    /\ day = 0
    /\ v_recorded = 0

NextAdmission ==
    \/ VTick
    \/ \E k \in Threads : VAcquireCall(k) \/ VAcquireGranted(k) \/ VAcquireWake(k)

SpecAdmission == (InitRL \/ InitAdmission) /\ [][NextRL \/ NextAdmission]_vars

\* C35: over the window from the start of the run to the present, the
\* acquisitions that proceeded are at most capacity + elapsed time * capacity
\* / 60, for RateLimiter.acquire and for VertexAIClient._rate_limit_acquire.
C35_AdmissionRateBounded ==
    /\ gateway = "rl" =>
          granted * TokenScale <=
            rate_limiter.max_tokens * TokenScale + now * rate_limiter.calls_per_minute
    /\ gateway = "adm" =>
          granted * VTokenScale <= vtx.max_tokens * VTokenScale + vnow

(***************************************************************************)
(* MemoryBank: memory is {session_id: {key: [values]}}.                    *)
(***************************************************************************)
SessionIds == {"s1", "s2"}

Keys == {"key1", "key2"}

Values == {"value1", "value2"}

\* Python's None
None == "None"

\* d[k] = v for a dict d
DictSet(d, k, v) == [x \in DOMAIN d \cup {k} |-> IF x = k THEN v ELSE d[x]]

\* del d[k]
DictDel(d, k) == [x \in DOMAIN d \ {k} |-> d[x]]

\* lines 35-41: store
MB_Store(mem, session_id, key, value) ==
    LET m1 == IF session_id \notin DOMAIN mem
              THEN DictSet(mem, session_id, EmptyDict) ELSE mem
        m2 == IF key \notin DOMAIN m1[session_id]
              THEN DictSet(m1, session_id, DictSet(m1[session_id], key, <<>>))
              ELSE m1
    IN DictSet(m2, session_id,
               DictSet(m2[session_id], key, Append(m2[session_id][key], value)))

\* line 54: self.memory.get(session_id, {}).get(key, [])
MB_Read(mem, session_id, key) ==
    LET d == IF session_id \in DOMAIN mem THEN mem[session_id] ELSE EmptyDict
    IN IF key \in DOMAIN d THEN d[key] ELSE <<>>

\* lines 67-68: values[-1] if values else None
MB_ReadLatest(mem, session_id, key) ==
    LET values == MB_Read(mem, session_id, key)
    IN IF values # <<>> THEN values[Len(values)] ELSE None

\* lines 80-83: clear_session
MB_ClearSession(mem, session_id) ==
    IF session_id \in DOMAIN mem
    THEN [mem |-> DictDel(mem, session_id), result |-> TRUE]
    ELSE [mem |-> mem, result |-> FALSE]

\* a clear_key that drops the whole session
MB_ClearKeyDropsSession(mem, session_id, key) ==
    IF session_id \in DOMAIN mem /\ key \in DOMAIN mem[session_id]
    THEN [mem |-> DictDel(mem, session_id), result |-> TRUE]
    ELSE [mem |-> mem, result |-> FALSE]

\* lines 96-99: clear_key
MB_ClearKey(mem, session_id, key) ==
    IF session_id \in DOMAIN mem /\ key \in DOMAIN mem[session_id]
    THEN [mem |-> DictSet(mem, session_id, DictDel(mem[session_id], key)),
          result |-> TRUE]
    ELSE [mem |-> mem, result |-> FALSE]

\* line 123: session_exists
MB_SessionExists(mem, session_id) == session_id \in DOMAIN mem

\* what every other variable does while the memory bank is driven
BankFrame ==
    UNCHANGED <<gateway, llmVars, vtxVars, granted, sessions, fs, appended>>

MBStore(session_id, key, value) ==
    /\ gateway = "mb"
    /\ ncalls < MaxBankOps
    /\ ncalls' = ncalls + 1
    /\ memory' = MB_Store(memory, session_id, key, value)
    /\ stored' = [stored EXCEPT ![<<session_id, key>>] = Append(@, value)]
    /\ last_call' = [op |-> "store", session_id |-> session_id, key |-> key,
                     result |-> None]
    /\ BankFrame

MBRead(session_id, key) ==
    /\ gateway = "mb"
    /\ last_call' = [op |-> "read", session_id |-> session_id, key |-> key,
                     result |-> MB_Read(memory, session_id, key)]
    /\ UNCHANGED <<ncalls, memory, stored>>
    /\ BankFrame

MBReadLatest(session_id, key) ==
    /\ gateway = "mb"
    /\ last_call' = [op |-> "read_latest", session_id |-> session_id, key |-> key,
                     result |-> MB_ReadLatest(memory, session_id, key)]
    /\ UNCHANGED <<ncalls, memory, stored>>
    /\ BankFrame

MBClearSession(session_id) ==
    /\ gateway = "mb"
    /\ ncalls < MaxBankOps
    /\ ncalls' = ncalls + 1
    /\ LET r == MB_ClearSession(memory, session_id) IN
       /\ memory' = r.mem
       /\ last_call' = [op |-> "clear_session", session_id |-> session_id,
                        key |-> None, result |-> r.result]
    /\ stored' = [p \in DOMAIN stored |->
                    IF p[1] = session_id THEN <<>> ELSE stored[p]]
    /\ BankFrame

MBClearKey(session_id, key) ==
    /\ gateway = "mb"
    /\ ncalls < MaxBankOps
    /\ ncalls' = ncalls + 1
    /\ LET r == MB_ClearKey(memory, session_id, key) IN
       /\ memory' = r.mem
       /\ last_call' = [op |-> "clear_key", session_id |-> session_id,
                        key |-> key, result |-> r.result]
    /\ stored' = [stored EXCEPT ![<<session_id, key>>] = <<>>]
    /\ BankFrame

\* a MemoryBank as constructed
InitBank ==
    /\ gateway = "mb"
    /\ InitLLMIdle
    /\ circuit_breaker = NewCircuitBreaker(5, 60)
    /\ InitVertexIdle
    /\ granted = 0
    /\ memory = EmptyDict
    /\ stored = [p \in SessionIds \X Keys |-> <<>>]
    /\ sessions = EmptyDict
    /\ fs = [dir |-> FALSE, file |-> NoFile]
    /\ appended = <<>>
    /\ last_call = NoCall

NextBank ==
    \E session_id \in SessionIds, key \in Keys :
       \/ \E value \in Values : MBStore(session_id, key, value)
       \/ MBRead(session_id, key)
       \/ MBReadLatest(session_id, key)
       \/ MBClearSession(session_id)
       \/ MBClearKey(session_id, key)

SpecBank == InitBank /\ [][NextBank]_vars

\* C36: after any sequence of store, clear_key and clear_session, read gives
\* for every session and key exactly the values stored under them since the
\* pair was last cleared, in insertion order (so a store under one pair
\* changes no other pair's reading); read_latest gives the last of them, None
\* when there is none; a session just cleared no longer exists.
C36_ReadsWhatWasStored ==
    gateway = "mb" =>
      /\ \A p \in SessionIds \X Keys :
            /\ MB_Read(memory, p[1], p[2]) = stored[p]
            /\ MB_ReadLatest(memory, p[1], p[2]) =
                 IF stored[p] = <<>> THEN None ELSE stored[p][Len(stored[p])]
      /\ last_call.op = "read" =>
            last_call.result = stored[<<last_call.session_id, last_call.key>>]
      /\ last_call.op = "read_latest" =>
            LET vs == stored[<<last_call.session_id, last_call.key>>]
            IN last_call.result = IF vs = <<>> THEN None ELSE vs[Len(vs)]
      /\ last_call.op = "clear_session" =>
            ~MB_SessionExists(memory, last_call.session_id)

\* read_latest returned the second of two values stored under a pair, after
\* a clear_key left another session with no key
C36_Witness ==
    /\ gateway = "mb"
    /\ last_call.op = "read_latest"
    /\ last_call.result = "value2"
    /\ stored[<<last_call.session_id, last_call.key>>] = <<"value1", "value2">>
    /\ \E s \in DOMAIN memory : DOMAIN memory[s] = {}

(***************************************************************************)
(* InMemorySessionService: sessions is {sid: {created_at, history,         *)
(* metadata}}.  A session id stands for the uuid4 string: the n-th         *)
(* session created has id n.  time.time() is the clock `now`; two calls    *)
(* may read the same value of it.                                          *)
(***************************************************************************)
TTLs == {0, 2}

\* lines 27-33: create_session at time t with the fresh id sid
SS_Create(ss, sid, t) ==
    [x \in DOMAIN ss \cup {sid} |->
       IF x = sid THEN [created_at |-> t, history |-> <<>>] ELSE ss[x]]

\* lines 49-50: append stamps the record and adds it to the history
SS_Append(ss, sid, t) ==
    [ss EXCEPT ![sid].history = Append(@, [timestamp |-> t])]

\* lines 98-102: the sessions cleanup_expired finds expired at time t
SS_Expired(ss, ttl_seconds, t) ==
    {sid \in DOMAIN ss : t - ss[sid].created_at > ttl_seconds}

\* lines 98-107: cleanup_expired
SS_Cleanup(ss, ttl_seconds, t) ==
    LET expired == SS_Expired(ss, ttl_seconds, t)
    IN [ss |-> [x \in DOMAIN ss \ expired |-> ss[x]],
        result |-> Cardinality(expired)]

\* what every other variable does while the session service is driven
SessionFrame ==
    UNCHANGED <<gateway, now, rate_limiter, circuit_breaker, budget_tracker, thr,
                cb_hist, cb_last, last_start, locks, vtxVars, granted, memory,
                stored, fs, appended>>

SSCreate ==
    /\ gateway = "ss"
    /\ ncalls < MaxSessions
    /\ ncalls' = ncalls + 1
    /\ sessions' = SS_Create(sessions, ncalls + 1, now)
    /\ last_call' = [op |-> "create_session", sid |-> ncalls + 1]
    /\ SessionFrame

\* lines 46-50: append to a session that exists (a missing one raises
\* KeyError and changes nothing)
SSAppend(sid) ==
    /\ gateway = "ss"
    /\ sid \in DOMAIN sessions
    /\ Len(sessions[sid].history) < MaxHistory
    /\ sessions' = SS_Append(sessions, sid, now)
    /\ last_call' = [op |-> "append", sid |-> sid]
    /\ UNCHANGED ncalls
    /\ SessionFrame

\* cleanup_expired(ttl_seconds); the history keeps what the call found, what
\* it returned, and the session created by the call just before it (0: the
\* call before was not create_session)
SSCleanup(ttl_seconds) ==
    /\ gateway = "ss"
    /\ LET r == SS_Cleanup(sessions, ttl_seconds, now) IN
       /\ sessions' = r.ss
       /\ last_call' = [op |-> "cleanup_expired", ttl_seconds |-> ttl_seconds,
                        time |-> now, before |-> sessions, result |-> r.result,
                        created |-> IF last_call.op = "create_session"
                                    THEN last_call.sid ELSE 0]
    /\ UNCHANGED ncalls
    /\ SessionFrame

\* an InMemorySessionService as constructed
InitSessions ==
    /\ gateway = "ss"
    /\ InitServicesIdle
    /\ InitLLMIdle
    /\ circuit_breaker = NewCircuitBreaker(5, 60)
    /\ InitVertexIdle

NextSessions ==
    \/ Tick
    \/ SSCreate
    \/ \E sid \in 1..MaxSessions : SSAppend(sid)
    \/ \E ttl_seconds \in TTLs : SSCleanup(ttl_seconds)

SpecSessions == InitSessions /\ [][NextSessions]_vars

\* C37: cleanup_expired removes exactly the sessions whose age has reached
\* ttl_seconds, returns their number and leaves every other session as it
\* was; called with ttl_seconds = 0 right after create_session it removes
\* the new session and returns at least 1.
C37_CleanupRemovesExpired ==
    (gateway = "ss" /\ last_call.op = "cleanup_expired") =>
      LET before == last_call.before
          reached == {sid \in DOMAIN before :
                        last_call.time - before[sid].created_at
                          >= last_call.ttl_seconds}
      IN /\ DOMAIN sessions = DOMAIN before \ reached
         /\ last_call.result = Cardinality(reached)
         /\ \A sid \in DOMAIN sessions : sessions[sid] = before[sid]
         /\ (last_call.ttl_seconds = 0 /\ last_call.created # 0) =>
               /\ last_call.created \notin DOMAIN sessions
               /\ last_call.result >= 1

(***************************************************************************)
(* audit_ledger: output/audit_ledger.jsonl, one JSON document a line.      *)
(* fs.dir says whether output/ exists, fs.file what the ledger file holds. *)
(* Whether the operating system lets the directory be created or the file  *)
(* be opened for appending is an input of each call.  An entry carries the *)
(* agent, the session and one more value ("test"): a tuple, which JSON     *)
(* writes as a list, or a set, which json.dumps refuses.                   *)
(***************************************************************************)
Agents == {"TestAgent", "PricingAgent"}

Payloads == {"tuple", "set"}

Entries == [agent : Agents, session : SessionIds, test : Payloads]

\* lines 38-40: a copy of the entry with the timestamp
Stamped(entry, t) ==
    [agent |-> entry.agent, session |-> entry.session, test |-> entry.test,
     ts |-> t]

\* json.dumps raises TypeError for this entry
Unserializable(e) == e.test = "set"

\* line 45 / line 72: what json.loads gives back for json.dumps(e)
JsonRoundTrip(e) == [e EXCEPT !.test = IF @ = "tuple" THEN "list" ELSE @]

\* lines 35-50: append_entry at time t; mkdir_ok and open_ok tell whether
\* the operating system allows creating output/ and opening the file
AL_Append(f, entry, t, mkdir_ok, open_ok) ==
    LET audit_entry == Stamped(entry, t) IN
    IF ~f.dir /\ ~mkdir_ok
    THEN [fs |-> f, raised |-> TRUE, result |-> None, written |-> FALSE]
    ELSE LET f1 == [f EXCEPT !.dir = TRUE] IN
         IF ~open_ok
         THEN [fs |-> f1, raised |-> FALSE, result |-> audit_entry,
               written |-> FALSE]
         ELSE IF Unserializable(audit_entry)
         THEN [fs |-> [f1 EXCEPT !.file.exists = TRUE], raised |-> FALSE,
               result |-> audit_entry, written |-> FALSE]
         ELSE [fs |-> [f1 EXCEPT !.file = [exists |-> TRUE,
                                           lines |-> Append(f.file.lines,
                                                            JsonRoundTrip(audit_entry))]],
               raised |-> FALSE, result |-> audit_entry, written |-> TRUE]

\* lines 63-78: read_ledger (every line of the file is a JSON document)
AL_Read(f) == IF ~f.file.exists THEN <<>> ELSE f.file.lines

\* lines 99-105: query_ledger with start_time and end_time left None; a
\* filter that is None is not applied
AL_Select(entries, agent, session) ==
    LET byAgent == IF agent # None
                   THEN SelectSeq(entries, LAMBDA e : e.agent = agent)
                   ELSE entries
    IN IF session # None
       THEN SelectSeq(byAgent, LAMBDA e : e.session = session)
       ELSE byAgent

AL_Query(f, agent, session) == AL_Select(AL_Read(f), agent, session)

\* append_entry called once more
ALAppend(entry, mkdir_ok, open_ok) ==
    /\ gateway = "al"
    /\ ncalls < MaxAppends
    /\ ncalls' = ncalls + 1
    /\ LET r == AL_Append(fs, entry, now, mkdir_ok, open_ok) IN
       /\ fs' = r.fs
       /\ appended' = IF r.written THEN Append(appended, r.result) ELSE appended
       /\ last_call' = [op |-> "append_entry", entry |-> entry, time |-> now,
                        raised |-> r.raised, result |-> r.result]
    /\ UNCHANGED <<gateway, now, rate_limiter, circuit_breaker, budget_tracker,
                   thr, cb_hist, cb_last, last_start, locks, vtxVars, granted,
                   memory, stored, sessions>>

\* query_ledger(agent, session) reads the file
ALQuery(agent, session) ==
    /\ gateway = "al"
    /\ last_call' = [op |-> "query_ledger", agent |-> agent, session |-> session,
                     raised |-> FALSE, result |-> AL_Query(fs, agent, session)]
    /\ UNCHANGED <<gateway, now, rate_limiter, circuit_breaker, budget_tracker,
                   thr, cb_hist, cb_last, ncalls, last_start, locks, vtxVars,
                   granted, memory, stored, sessions, fs, appended>>

\* a process started where output/ exists or not, the ledger not yet
\* written
InitLedgerFile ==
    /\ gateway = "al"
    /\ InitLLMIdle
    /\ circuit_breaker = NewCircuitBreaker(5, 60)
    /\ InitVertexIdle
    /\ granted = 0
    /\ memory = EmptyDict
    /\ stored = EmptyDict
    /\ sessions = EmptyDict
    /\ \E dir \in BOOLEAN : fs = [dir |-> dir, file |-> NoFile]
    /\ appended = <<>>
    /\ last_call = NoCall

NextLedgerFile ==
    \/ Tick
    \/ \E entry \in Entries, mkdir_ok \in BOOLEAN, open_ok \in BOOLEAN :
         ALAppend(entry, mkdir_ok, open_ok)
    \/ \E agent \in Agents \cup {None}, session \in SessionIds \cup {None} :
         ALQuery(agent, session)

SpecLedgerFile == InitLedgerFile /\ [][NextLedgerFile]_vars

\* the fields of a record that JSON keeps as they were
Key(e) == [agent |-> e.agent, session |-> e.session, ts |-> e.ts]

KeysOf(entries) == [i \in 1..Len(entries) |-> Key(entries[i])]

\* C38: append_entry never raises and returns the entry with its timestamp,
\* also when the record cannot be written; read_ledger returns the records
\* written, in the order of their appends, and query_ledger every one of
\* them that matches the agent and session filters.
C38_BestEffortAppendOnly ==
    gateway = "al" =>
      /\ last_call.op = "append_entry" =>
            /\ ~last_call.raised
            /\ last_call.result = Stamped(last_call.entry, last_call.time)
      /\ KeysOf(AL_Read(fs)) = KeysOf(appended)
      /\ \A agent \in Agents \cup {None}, session \in SessionIds \cup {None} :
            KeysOf(AL_Query(fs, agent, session)) =
              KeysOf(AL_Select(appended, agent, session))
      /\ last_call.op = "query_ledger" =>
            KeysOf(last_call.result) =
              KeysOf(AL_Select(appended, last_call.agent, last_call.session))

====
